---- MODULE Spec2Model ----
(***************************************************************************)
(* Signal extraction and composite scoring of the run-scan edge function   *)
(* (src/RUNBOOK.md, lines 395-944): analyzeResponse, calculateScores and   *)
(* the part of the request handler that stores scores and raises the       *)
(* SCORE_DROP alert.                                                       *)
(*                                                                         *)
(* The code is TypeScript: every number is an IEEE-754 binary64 value and  *)
(* every string a sequence of UTF-16 code units.  Numbers are modelled     *)
(* exactly (arbitrary-precision dyadic rationals, each operation rounded   *)
(* to nearest-even at 53 bits), strings as sequences of characters.        *)
(***************************************************************************)
EXTENDS Integers, Sequences, FiniteSets, TLC

(***************************************************************************)
(* Natural numbers of any size: little-endian sequences of limbs below     *)
(* Base, without leading zero limbs (<<>> is 0).  TLC's own integers are   *)
(* 32 bits wide, a binary64 significand is 53.                             *)
(***************************************************************************)
LimbBits == 5 * 3

Base == 2^LimbBits

Limb(x, i) == IF i <= Len(x) THEN x[i] ELSE 0

RECURSIVE Norm(_)
Norm(x) ==
  IF x = <<>> THEN <<>>
  ELSE IF x[Len(x)] = 0 THEN Norm(SubSeq(x, 1, Len(x) - 1))
  ELSE x

RECURSIVE FromInt(_)
FromInt(n) == IF n = 0 THEN <<>> ELSE <<n % Base>> \o FromInt(n \div Base)

RECURSIVE ToInt(_)
ToInt(x) == IF x = <<>> THEN 0 ELSE x[1] + Base * ToInt(Tail(x))

RECURSIVE AddR(_, _, _, _)
AddR(x, y, i, c) ==
  IF i > Len(x) /\ i > Len(y)
  THEN (IF c = 0 THEN <<>> ELSE <<c>>)
  ELSE LET s == Limb(x, i) + Limb(y, i) + c
       IN  <<s % Base>> \o AddR(x, y, i + 1, s \div Base)

Add(x, y) == AddR(x, y, 1, 0)

\* x - y for x >= y
RECURSIVE SubR(_, _, _, _)
SubR(x, y, i, b) ==
  IF i > Len(x) THEN <<>>
  ELSE LET d == x[i] - Limb(y, i) - b
       IN  IF d < 0 THEN <<d + Base>> \o SubR(x, y, i + 1, 1)
           ELSE <<d>> \o SubR(x, y, i + 1, 0)

Sub(x, y) == Norm(SubR(x, y, 1, 0))

\* -1, 0, 1 as x < y, x = y, x > y
RECURSIVE CmpR(_, _, _)
CmpR(x, y, i) ==
  IF i = 0 THEN 0
  ELSE IF x[i] < y[i] THEN -1
  ELSE IF x[i] > y[i] THEN 1
  ELSE CmpR(x, y, i - 1)

Cmp(x, y) ==
  IF Len(x) < Len(y) THEN -1
  ELSE IF Len(x) > Len(y) THEN 1
  ELSE CmpR(x, y, Len(x))

\* x * c for 0 <= c < Base
RECURSIVE MulSmallR(_, _, _, _)
MulSmallR(x, c, i, k) ==
  IF i > Len(x) THEN (IF k = 0 THEN <<>> ELSE <<k>>)
  ELSE LET p == x[i] * c + k
       IN  <<p % Base>> \o MulSmallR(x, c, i + 1, p \div Base)

MulSmall(x, c) == IF c = 0 THEN <<>> ELSE MulSmallR(x, c, 1, 0)

RECURSIVE Mul(_, _)
Mul(x, y) ==
  IF y = <<>> \/ x = <<>> THEN <<>>
  ELSE Add(MulSmall(x, y[1]), Norm(<<0>> \o Mul(x, Tail(y))))

\* [q, r] with x = q * d + r, 0 <= r < d, for 0 < d < Base
RECURSIVE DivSmallR(_, _, _, _)
DivSmallR(x, d, i, r) ==
  IF i = 0 THEN [q |-> <<>>, r |-> r]
  ELSE LET cur  == r * Base + x[i]
           rest == DivSmallR(x, d, i - 1, cur % d)
       IN  [q |-> rest.q \o <<cur \div d>>, r |-> rest.r]

DivSmall(x, d) ==
  LET qr == DivSmallR(x, d, Len(x), 0) IN [q |-> Norm(qr.q), r |-> qr.r]

RECURSIVE BitLenInt(_)
BitLenInt(n) == IF n = 0 THEN 0 ELSE 1 + BitLenInt(n \div 2)

BitLen(x) ==
  IF x = <<>> THEN 0 ELSE (Len(x) - 1) * LimbBits + BitLenInt(x[Len(x)])

Zeros(n) == [i \in 1..n |-> 0]

ShiftLeft(x, k) ==
  IF x = <<>> THEN <<>>
  ELSE Zeros(k \div LimbBits) \o MulSmall(x, 2^(k % LimbBits))

ShiftRight(x, k) ==
  IF k \div LimbBits >= Len(x) THEN <<>>
  ELSE DivSmall(SubSeq(x, k \div LimbBits + 1, Len(x)), 2^(k % LimbBits)).q

IsOdd(x) == x # <<>> /\ x[1] % 2 = 1

(***************************************************************************)
(* binary64 values: [sg, m, e] is sg * m * 2^e with sg in {1, -1} and m    *)
(* an odd natural below 2^53, or zero ([1, <<>>, 0]).  The form is unique, *)
(* so two values are the same number iff they are the same record.  The    *)
(* sign of zero, infinities, NaN and subnormals never arise: every value   *)
(* of the scoring code lies between 2^-60 and 2^14 in magnitude, or is 0.  *)
(***************************************************************************)
\* 52 stored significand bits and the implicit leading one
Precision == 52 + 1

FZero == [sg |-> 1, m |-> <<>>, e |-> 0]

RECURSIVE Canon(_, _, _)
Canon(sg, m, e) ==
  IF m = <<>> THEN FZero
  ELSE IF m[1] = 0 THEN Canon(sg, Tail(m), e + LimbBits)
  ELSE IF m[1] % 2 = 0 THEN Canon(sg, DivSmall(m, 2).q, e + 1)
  ELSE [sg |-> sg, m |-> m, e |-> e]

\* The remainder of M modulo 2^s against 2^(s-1): -1, 0, 1 as it is below,
\* at, above one half of the last place kept (s >= 1).
CmpHalf(M, s) == Cmp(Sub(M, ShiftLeft(ShiftRight(M, s), s)), ShiftLeft(<<1>>, s - 1))

\* q, or q + 1 when the part cut off is above one half (c > 0), or is one
\* half (c = 0) and something lies beyond it (sticky) or q is odd.
RoundQuotient(sg, q, e, c, sticky) ==
  Canon(sg, IF c > 0 \/ (c = 0 /\ (sticky \/ IsOdd(q))) THEN Add(q, <<1>>) ELSE q, e)

\* The binary64 nearest to sg * (M + t) * 2^e, where 0 < t < 1 if sticky and
\* t = 0 otherwise; ties go to the even significand.
RoundNearestEven(sg, M, e, sticky) ==
  IF BitLen(M) <= Precision THEN Canon(sg, M, e)
  ELSE RoundQuotient(sg, ShiftRight(M, BitLen(M) - Precision), e + BitLen(M) - Precision,
                     CmpHalf(M, BitLen(M) - Precision), sticky)

FromInteger(n) == IF n < 0 THEN Canon(-1, FromInt(-n), 0) ELSE Canon(1, FromInt(n), 0)

FNeg(a) == IF a.m = <<>> THEN a ELSE [a EXCEPT !.sg = -a.sg]

Min2(i, j) == IF i < j THEN i ELSE j

\* sa * A * 2^e + sb * B * 2^e
AddAligned(sa, A, sb, B, e) ==
  RoundNearestEven(IF sa = sb \/ Cmp(A, B) >= 0 THEN sa ELSE sb,
                   IF sa = sb THEN Add(A, B)
                   ELSE IF Cmp(A, B) >= 0 THEN Sub(A, B)
                   ELSE Sub(B, A),
                   e, FALSE)

FAdd(a, b) ==
  IF a.m = <<>> THEN b
  ELSE IF b.m = <<>> THEN a
  ELSE AddAligned(a.sg, ShiftLeft(a.m, a.e - Min2(a.e, b.e)),
                  b.sg, ShiftLeft(b.m, b.e - Min2(a.e, b.e)), Min2(a.e, b.e))

FSub(a, b) == FAdd(a, FNeg(b))

FMul(a, b) ==
  IF a.m = <<>> \/ b.m = <<>> THEN FZero
  ELSE RoundNearestEven(a.sg * b.sg, Mul(a.m, b.m), a.e + b.e, FALSE)

\* a / b for a divisor whose odd part is below Base (every divisor of the
\* code is a small integer: a count, the batch size, 2).
FDiv(a, b) ==
  IF a.m = <<>> THEN FZero
  ELSE LET k  == IF BitLen(a.m) >= Precision + 3 + LimbBits THEN 0
                 ELSE Precision + 3 + LimbBits - BitLen(a.m)
           qr == DivSmall(ShiftLeft(a.m, k), b.m[1])
       IN  RoundNearestEven(a.sg * b.sg, qr.q, a.e - b.e - k, qr.r # 0)

\* -1, 0, 1 as a < b, a = b, a > b
FCmp(a, b) ==
  IF a = b THEN 0
  ELSE IF a.sg # b.sg THEN a.sg
  ELSE IF a.m = <<>> THEN -b.sg
  ELSE IF b.m = <<>> THEN a.sg
  ELSE a.sg * Cmp(ShiftLeft(a.m, a.e - Min2(a.e, b.e)), ShiftLeft(b.m, b.e - Min2(a.e, b.e)))

FMax(a, b) == IF FCmp(a, b) >= 0 THEN a ELSE b

FMin(a, b) == IF FCmp(a, b) <= 0 THEN a ELSE b

\* A decimal literal num/den of the source text: the binary64 nearest to it.
Literal(num, den) == FDiv(FromInteger(num), FromInteger(den))

Hundred == FromInteger(100)

\* Math.round: the nearest integer, a tie going towards +Infinity.
MathRound(x) ==
  IF x.m = <<>> THEN 0
  ELSE IF x.e >= 0 THEN x.sg * ToInt(ShiftLeft(x.m, x.e))
  ELSE IF x.sg = 1
       THEN ToInt(ShiftRight(x.m, -x.e)) + (IF CmpHalf(x.m, -x.e) >= 0 THEN 1 ELSE 0)
  ELSE -(ToInt(ShiftRight(x.m, -x.e)) + (IF CmpHalf(x.m, -x.e) > 0 THEN 1 ELSE 0))

(***************************************************************************)
(* Strings: sequences of characters, a character being a one-letter TLA+   *)
(* string.  KelvinSign is U+212A, the one character of the model outside   *)
(* ASCII: String.prototype.toLowerCase maps it to "k", while a regular     *)
(* expression with the i flag (and no u flag) compares characters by their *)
(* upper-case form and never folds a non-ASCII character onto ASCII.       *)
(***************************************************************************)
KelvinSign == "U+212A"

UpperCase ==
  <<"A", "B", "C", "D", "E", "F", "G", "H", "I", "J", "K", "L", "M",
    "N", "O", "P", "Q", "R", "S", "T", "U", "V", "W", "X", "Y", "Z">>

LowerCase ==
  <<"a", "b", "c", "d", "e", "f", "g", "h", "i", "j", "k", "l", "m",
    "n", "o", "p", "q", "r", "s", "t", "u", "v", "w", "x", "y", "z">>

IndexIn(c, letters) ==
  IF \E i \in 1..Len(letters) : letters[i] = c
  THEN CHOOSE i \in 1..Len(letters) : letters[i] = c
  ELSE 0

toLowerCaseChar(c) ==
  IF IndexIn(c, UpperCase) > 0 THEN LowerCase[IndexIn(c, UpperCase)]
  ELSE IF c = KelvinSign THEN "k"
  ELSE c

toLowerCase(s) == SubSeq([i \in 1..Len(s) |-> toLowerCaseChar(s[i])], 1, Len(s))

\* Canonicalize of a RegExp with the i flag and without the u flag: the
\* upper-case form, unless that would turn a non-ASCII character into ASCII.
Canonicalize(c) ==
  IF IndexIn(c, LowerCase) > 0 THEN UpperCase[IndexIn(c, LowerCase)] ELSE c

includes(s, p) ==
  \E i \in 0..(Len(s) - Len(p)) : SubSeq(s, i + 1, i + Len(p)) = p

\* 0-based index of the first occurrence, -1 if there is none
indexOf(s, p) ==
  IF includes(s, p)
  THEN CHOOSE i \in 0..(Len(s) - Len(p)) :
         /\ SubSeq(s, i + 1, i + Len(p)) = p
         /\ \A j \in 0..(i - 1) : SubSeq(s, j + 1, j + Len(p)) # p
  ELSE -1

\* s.substring(start, end) for 0 <= start <= end <= s.length
substring(s, start, end) == SubSeq(s, start + 1, end)

RECURSIVE Flatten(_)
Flatten(ss) == IF ss = <<>> THEN <<>> ELSE Head(ss) \o Flatten(Tail(ss))

Count(lexicon, lowerText) ==
  Cardinality({i \in 1..Len(lexicon) : includes(lowerText, lexicon[i])})

Filter(lexicon, lowerText) ==
  {lexicon[i] : i \in {j \in 1..Len(lexicon) : includes(lowerText, lexicon[j])}}

(***************************************************************************)
(* Regular expressions.  A pattern is a sequence of atoms, [any |-> TRUE]  *)
(* for an unescaped "." and [any |-> FALSE, c |-> ch] for a character; the *)
(* names of the model hold no other syntax character unescaped.            *)
(***************************************************************************)
Backslash == "U+005C"

DoubleQuote == "U+0022"

Backtick == "U+0060"

Tab == "U+0009"

LineFeed == "U+000A"

FormFeed == "U+000C"

CarriageReturn == "U+000D"

SyntaxCharacters ==
  {".", "*", "+", "?", "^", "$", "{", "}", "(", ")", "|", "[", "]", Backslash}

LineTerminators == {LineFeed, CarriageReturn}

\* s.replace(/[.*+?^${}()|[\]\\]/g, '\\$&')
escapeRegExp(s) ==
  Flatten([i \in 1..Len(s) |->
             IF s[i] \in SyntaxCharacters THEN <<Backslash, s[i]>> ELSE <<s[i]>>])

RECURSIVE RegExpAtoms(_)
RegExpAtoms(src) ==
  IF src = <<>> THEN <<>>
  ELSE IF src[1] = Backslash /\ Len(src) >= 2
       THEN <<[any |-> FALSE, c |-> src[2]]>> \o RegExpAtoms(SubSeq(src, 3, Len(src)))
  ELSE IF src[1] = "."
       THEN <<[any |-> TRUE, c |-> "."]>> \o RegExpAtoms(Tail(src))
  ELSE <<[any |-> FALSE, c |-> src[1]]>> \o RegExpAtoms(Tail(src))

AtomMatches(atom, ch) ==
  IF atom.any THEN ch \notin LineTerminators
  ELSE Canonicalize(atom.c) = Canonicalize(ch)

\* the pattern matches at the 1-based position i of text
MatchesAt(atoms, text, i) ==
  /\ i + Len(atoms) - 1 <= Len(text)
  /\ \A j \in 1..Len(atoms) : AtomMatches(atoms[j], text[i + j - 1])

\* (text.match(new RegExp(src, 'gi')) || []).length: matches are taken from
\* left to right without overlap; an empty match advances by one character.
RECURSIVE MatchCountFrom(_, _, _)
MatchCountFrom(atoms, text, i) ==
  LET starts == {j \in i..(Len(text) + 1) : MatchesAt(atoms, text, j)}
      first  == CHOOSE j \in starts : \A k \in starts : j <= k
  IN  IF starts = {} THEN 0
      ELSE 1 + MatchCountFrom(atoms, text, first + (IF atoms = <<>> THEN 1 ELSE Len(atoms)))

matchCount(text, src) == MatchCountFrom(RegExpAtoms(src), text, 1)

(***************************************************************************)
(* /https?:\/\/[^\s<>"{}|\\^`\[\]]+/gi                                     *)
(***************************************************************************)
WhiteSpace == {" ", Tab, LineFeed, CarriageReturn, FormFeed}

UrlStop == WhiteSpace \cup {"<", ">", DoubleQuote, "{", "}", "|", Backslash, "^", Backtick, "[", "]"}

\* number of characters from position i on that are outside UrlStop
RECURSIVE UrlRun(_, _)
UrlRun(text, i) ==
  IF i > Len(text) \/ text[i] \in UrlStop THEN 0 ELSE 1 + UrlRun(text, i + 1)

HasAt(text, i, lit) ==
  /\ i + Len(lit) - 1 <= Len(text)
  /\ \A j \in 1..Len(lit) : Canonicalize(text[i + j - 1]) = Canonicalize(lit[j])

\* length of the match at position i, 0 if there is none
UrlMatchLen(text, i) ==
  LET scheme == IF HasAt(text, i, <<"h", "t", "t", "p", "s">>) THEN 5
                ELSE IF HasAt(text, i, <<"h", "t", "t", "p">>) THEN 4
                ELSE 0
      run    == UrlRun(text, i + scheme + 3)
  IN  IF scheme > 0 /\ HasAt(text, i + scheme, <<":", "/", "/">>) /\ run > 0
      THEN scheme + 3 + run
      ELSE 0

RECURSIVE UrlMatchesFrom(_, _)
UrlMatchesFrom(text, i) ==
  LET starts == {j \in i..Len(text) : UrlMatchLen(text, j) > 0}
      first  == CHOOSE j \in starts : \A k \in starts : j <= k
  IN  IF starts = {} THEN <<>>
      ELSE <<SubSeq(text, first, first + UrlMatchLen(text, first) - 1)>>
           \o UrlMatchesFrom(text, first + UrlMatchLen(text, first))

\* responseText.match(...) || []
urlMatch(text) == UrlMatchesFrom(text, 1)

\* s.replace(/\s+/g, '')
stripWhiteSpace(s) == SelectSeq(s, LAMBDA c : c \notin WhiteSpace)

(***************************************************************************)
(* The lexicons                                                            *)
(***************************************************************************)
HEDGING_WORDS == <<
  <<"m", "i", "g", "h", "t">>,
  <<"c", "o", "u", "l", "d">>,
  <<"m", "a", "y">>,
  <<"p", "o", "s", "s", "i", "b", "l", "y">>,
  <<"p", "e", "r", "h", "a", "p", "s">>,
  <<"m", "a", "y", "b", "e">>,
  <<"g", "e", "n", "e", "r", "a", "l", "l", "y">>,
  <<"t", "y", "p", "i", "c", "a", "l", "l", "y">>,
  <<"u", "s", "u", "a", "l", "l", "y">>,
  <<"s", "o", "m", "e", "t", "i", "m", "e", "s">>,
  <<"o", "f", "t", "e", "n">>,
  <<"i", "t", " ", "s", "e", "e", "m", "s">>,
  <<"a", "p", "p", "e", "a", "r", "s", " ", "t", "o">>,
  <<"t", "e", "n", "d", "s", " ", "t", "o">>,
  <<"s", "o", "m", "e", " ", "s", "a", "y">>
>>

POSITIVE_INDICATORS == <<
  <<"e", "x", "c", "e", "l", "l", "e", "n", "t">>,
  <<"o", "u", "t", "s", "t", "a", "n", "d", "i", "n", "g">>,
  <<"g", "r", "e", "a", "t">>,
  <<"r", "e", "c", "o", "m", "m", "e", "n", "d">>,
  <<"t", "r", "u", "s", "t", "e", "d">>,
  <<"r", "e", "l", "i", "a", "b", "l", "e">>,
  <<"b", "e", "s", "t">>,
  <<"t", "o", "p">>,
  <<"q", "u", "a", "l", "i", "t", "y">>,
  <<"p", "r", "o", "f", "e", "s", "s", "i", "o", "n", "a", "l">>,
  <<"h", "i", "g", "h", "l", "y", " ", "r", "e", "c", "o", "m", "m", "e", "n", "d", "e", "d">>,
  <<"w", "e", "l", "l", "-", "k", "n", "o", "w", "n">>,
  <<"e", "s", "t", "a", "b", "l", "i", "s", "h", "e", "d">>
>>

NEGATIVE_INDICATORS == <<
  <<"c", "o", "m", "p", "l", "a", "i", "n", "t", "s">>,
  <<"i", "s", "s", "u", "e", "s">>,
  <<"p", "r", "o", "b", "l", "e", "m", "s">>,
  <<"a", "v", "o", "i", "d">>,
  <<"p", "o", "o", "r">>,
  <<"n", "e", "g", "a", "t", "i", "v", "e">>,
  <<"s", "c", "a", "m">>,
  <<"c", "o", "n", "t", "r", "o", "v", "e", "r", "s", "i", "a", "l">>,
  <<"w", "a", "r", "n", "i", "n", "g">>,
  <<"c", "a", "r", "e", "f", "u", "l">>
>>

RECOMMENDATION_PHRASES == <<
  <<"r", "e", "c", "o", "m", "m", "e", "n", "d">>,
  <<"s", "u", "g", "g", "e", "s", "t">>,
  <<"c", "o", "n", "s", "i", "d", "e", "r">>,
  <<"g", "o", "o", "d", " ", "c", "h", "o", "i", "c", "e">>,
  <<"w", "o", "r", "t", "h">>,
  <<"d", "e", "f", "i", "n", "i", "t", "e", "l", "y">>,
  <<"s", "h", "o", "u", "l", "d", " ", "t", "r", "y">>,
  <<"t", "o", "p", " ", "p", "i", "c", "k">>
>>

(***************************************************************************)
(* analyzeResponse(responseText, businessName, competitors).  The fields   *)
(* ranking and keyPhrases of its result are read by nothing modelled here  *)
(* and are left out.                                                       *)
(***************************************************************************)
NoUrl == <<>>

ContextRadius == 150

Max2(i, j) == IF i > j THEN i ELSE j

mentionedOf(lowerText, lowerBusiness) == includes(lowerText, lowerBusiness)

mentionRegexSource(lowerBusiness) == escapeRegExp(lowerBusiness)

mentionCountOf(responseText, lowerBusiness) ==
  matchCount(responseText, mentionRegexSource(lowerBusiness))

mentionContextOf(responseText, businessName) ==
  LET lowerText     == toLowerCase(responseText)
      lowerBusiness == toLowerCase(businessName)
      index         == indexOf(lowerText, lowerBusiness)
      start         == Max2(0, index - ContextRadius)
      end           == Min2(Len(responseText), index + Len(businessName) + ContextRadius)
  IN  IF ~mentionedOf(lowerText, lowerBusiness) THEN <<>>
      ELSE (IF start > 0 THEN <<".", ".", ".">> ELSE <<>>)
           \o substring(responseText, start, end)
           \o (IF end < Len(responseText) THEN <<".", ".", ".">> ELSE <<>>)

sentimentScoreOf(positiveCount, negativeCount) ==
  FDiv(FromInteger(positiveCount - negativeCount),
       FromInteger(Max2(1, positiveCount + negativeCount)))

\* 0.3
PositiveThreshold == Literal(3, 10)

\* variant: a positive sentimentScore tested before the negative count
sentimentOf_scoreFirst(positiveCount, negativeCount) ==
  LET sentimentScore == sentimentScoreOf(positiveCount, negativeCount)
  IN  IF FCmp(sentimentScore, FZero) > 0 THEN "POSITIVE"
      ELSE IF negativeCount >= 2 THEN "NEGATIVE"
      ELSE IF negativeCount > 0 THEN "CAUTIOUS"
      ELSE "NEUTRAL"

sentimentOf(positiveCount, negativeCount) ==
  LET sentimentScore == sentimentScoreOf(positiveCount, negativeCount)
  IN  IF negativeCount >= 2 THEN "NEGATIVE"
      ELSE IF FCmp(sentimentScore, PositiveThreshold) > 0 THEN "POSITIVE"
      ELSE IF FCmp(sentimentScore, FZero) > 0 THEN "POSITIVE"
      ELSE IF negativeCount > 0 THEN "CAUTIOUS"
      ELSE "NEUTRAL"

\* variant: recommended only from two recommendation phrases on
isRecommendedOf_strongOnly(recommendationCount, sentiment) ==
  recommendationCount >= 2 /\ sentiment # "NEGATIVE"

\* variant: recommended whatever the sentiment
isRecommendedOf_anySentiment(recommendationCount, sentiment) ==
  recommendationCount > 0

isRecommendedOf(recommendationCount, sentiment) ==
  recommendationCount > 0 /\ sentiment # "NEGATIVE"

recommendationStrengthOf(recommendationCount) ==
  IF recommendationCount >= 2 THEN "STRONG"
  ELSE IF recommendationCount = 1 THEN "MODERATE"
  ELSE "NONE"

\* 0.5 and 0.1
ConfidenceTerms == [base |-> Literal(5, 10), step |-> Literal(1, 10)]

\* variant: hedging words counted from the second on only
confidenceScoreOf_hedgedOnly(positiveCount, hedgingCount) ==
  FMax(FZero,
       FMin(FromInteger(1),
            FSub(FAdd(ConfidenceTerms.base,
                      FMul(FromInteger(positiveCount), ConfidenceTerms.step)),
                 FMul(FromInteger(IF hedgingCount >= 2 THEN hedgingCount ELSE 0),
                      ConfidenceTerms.step))))

\* variant: no Math.max(0, Math.min(1, ...)) around the sum
confidenceScoreOf_unclamped(positiveCount, hedgingCount) ==
  FSub(FAdd(ConfidenceTerms.base, FMul(FromInteger(positiveCount), ConfidenceTerms.step)),
       FMul(FromInteger(hedgingCount), ConfidenceTerms.step))

confidenceScoreOf(positiveCount, hedgingCount) ==
  FMax(FZero,
       FMin(FromInteger(1),
            FSub(FAdd(ConfidenceTerms.base,
                      FMul(FromInteger(positiveCount), ConfidenceTerms.step)),
                 FMul(FromInteger(hedgingCount), ConfidenceTerms.step))))

\* variant: the negative test ahead of the mentioned test
mentionTypeOf_negativeFirst(mentioned, negativeCount, mentionCount, lowerText, competitors) ==
  IF negativeCount >= 2 THEN "NEGATIVE"
  ELSE IF ~mentioned THEN "ABSENT"
  ELSE IF mentionCount >= 3 THEN "PRIMARY"
  ELSE IF mentionCount >= 2 THEN "FEATURED"
  ELSE IF \E i \in 1..Len(competitors) : includes(lowerText, toLowerCase(competitors[i]))
       THEN "COMPARISON"
  ELSE "BRIEF"

\* variant: the mention counts tested ahead of the negative words
mentionTypeOf_volumeFirst(mentioned, negativeCount, mentionCount, lowerText, competitors) ==
  IF ~mentioned THEN "ABSENT"
  ELSE IF mentionCount >= 3 THEN "PRIMARY"
  ELSE IF mentionCount >= 2 THEN "FEATURED"
  ELSE IF negativeCount >= 2 THEN "NEGATIVE"
  ELSE IF \E i \in 1..Len(competitors) : includes(lowerText, toLowerCase(competitors[i]))
       THEN "COMPARISON"
  ELSE "BRIEF"

mentionTypeOf(mentioned, negativeCount, mentionCount, lowerText, competitors) ==
  IF ~mentioned THEN "ABSENT"
  ELSE IF negativeCount >= 2 THEN "NEGATIVE"
  ELSE IF mentionCount >= 3 THEN "PRIMARY"
  ELSE IF mentionCount >= 2 THEN "FEATURED"
  ELSE IF \E i \in 1..Len(competitors) : includes(lowerText, toLowerCase(competitors[i]))
       THEN "COMPARISON"
  ELSE "BRIEF"

\* variant: the first URL of the response, whatever site it names
citedUrlOf_firstUrl(responseText, lowerBusiness) ==
  IF urlMatch(responseText) = <<>> THEN NoUrl ELSE urlMatch(responseText)[1]

citedUrlOf(responseText, lowerBusiness) ==
  LET urls == urlMatch(responseText)
      hits == {i \in 1..Len(urls) :
                 includes(toLowerCase(urls[i]), stripWhiteSpace(lowerBusiness))}
  IN  IF hits = {} THEN NoUrl
      ELSE urls[CHOOSE i \in hits : \A j \in hits : i <= j]

analyzeResponse(responseText, businessName, competitors) ==
  LET lowerText           == toLowerCase(responseText)
      lowerBusiness       == toLowerCase(businessName)
      mentioned           == mentionedOf(lowerText, lowerBusiness)
      mentionCount        == mentionCountOf(responseText, lowerBusiness)
      positiveCount       == Count(POSITIVE_INDICATORS, lowerText)
      negativeCount       == Count(NEGATIVE_INDICATORS, lowerText)
      sentiment           == sentimentOf(positiveCount, negativeCount)
      hedgingPhrases      == Filter(HEDGING_WORDS, lowerText)
      recommendationCount == Count(RECOMMENDATION_PHRASES, lowerText)
  IN  [ mentioned              |-> mentioned,
        mentionType            |-> mentionTypeOf(mentioned, negativeCount, mentionCount,
                                                 lowerText, competitors),
        mentionContext         |-> mentionContextOf(responseText, businessName),
        mentionCount           |-> mentionCount,
        sentiment              |-> sentiment,
        sentimentScore         |-> sentimentScoreOf(positiveCount, negativeCount),
        confidenceScore        |-> confidenceScoreOf(positiveCount, Cardinality(hedgingPhrases)),
        hasHedging             |-> Cardinality(hedgingPhrases) >= 2,
        hedgingPhrases         |-> hedgingPhrases,
        positiveIndicators     |-> Filter(POSITIVE_INDICATORS, lowerText),
        negativeIndicators     |-> Filter(NEGATIVE_INDICATORS, lowerText),
        isRecommended          |-> isRecommendedOf(recommendationCount, sentiment),
        recommendationStrength |-> recommendationStrengthOf(recommendationCount),
        citedUrl               |-> citedUrlOf(responseText, lowerBusiness),
        citedSources           |-> urlMatch(responseText),
        competitorsMentioned   |-> SelectSeq(competitors,
                                     LAMBDA c : includes(lowerText, toLowerCase(c))) ]

\* queryResult.response null or absent: a text of one element that is no
\* character
Null == <<"null">>

\* what a call leaves when responseText.toLowerCase() throws
TypeError == [thrown |-> "TypeError"]

\* variant: a null response text read as the empty text
analyzeCall_coerced(responseText, businessName, competitors) ==
  analyzeResponse(IF responseText = Null THEN <<>> ELSE responseText,
                  businessName, competitors)

\* analyzeResponse called with queryResult.response: the first statement
\* dereferences responseText
analyzeCall(responseText, businessName, competitors) ==
  IF responseText = Null THEN TypeError
  ELSE analyzeResponse(responseText, businessName, competitors)

(***************************************************************************)
(* analyzeCompetitorResponse(response, competitorName) of competitor-scan  *)
(***************************************************************************)
positiveWords == <<
  <<"e", "x", "c", "e", "l", "l", "e", "n", "t">>,
  <<"g", "r", "e", "a", "t">>,
  <<"r", "e", "c", "o", "m", "m", "e", "n", "d">>,
  <<"t", "r", "u", "s", "t", "e", "d">>,
  <<"b", "e", "s", "t">>,
  <<"q", "u", "a", "l", "i", "t", "y">>
>>

negativeWords == <<
  <<"c", "o", "m", "p", "l", "a", "i", "n", "t", "s">>,
  <<"i", "s", "s", "u", "e", "s">>,
  <<"a", "v", "o", "i", "d">>,
  <<"p", "o", "o", "r">>,
  <<"n", "e", "g", "a", "t", "i", "v", "e">>
>>

\* what the call leaves when new RegExp throws
SyntaxError == [thrown |-> "SyntaxError"]

\* new RegExp(src, 'gi') throws: of the patterns the names of the model
\* give, those with an unescaped "(" that no ")" closes
RegExpThrows(src) ==
  \E i \in 1..Len(src) :
    /\ src[i] = "(" /\ (i = 1 \/ src[i - 1] # Backslash)
    /\ \A j \in (i + 1)..Len(src) : src[j] # ")"

analyzeCompetitorResponse(response, competitorName) ==
  LET lowerText     == toLowerCase(response)
      lowerName     == toLowerCase(competitorName)
      positiveCount == Count(positiveWords, lowerText)
      negativeCount == Count(negativeWords, lowerText)
  IN  IF RegExpThrows(lowerName) THEN SyntaxError
      ELSE [ mentioned      |-> includes(lowerText, lowerName),
             mentionCount   |-> matchCount(response, lowerName),
             sentimentScore |-> sentimentScoreOf(positiveCount, negativeCount),
             isRecommended  |-> includes(lowerText, RECOMMENDATION_PHRASES[1])
                                  /\ negativeCount = 0,
             positiveCount  |-> positiveCount,
             negativeCount  |-> negativeCount ]

(***************************************************************************)
(* Plans: PLAN_LIMITS of planGating (the platforms of each tier) and       *)
(* getPlatformsForPlan of scheduled-monitor                                *)
(***************************************************************************)
PlanTier == {"FREE", "STARTER", "PROFESSIONAL", "SCALE", "CUSTOM"}

PLAN_LIMITS ==
  [FREE         |-> [platforms |-> <<"chatgpt">>],
   STARTER      |-> [platforms |-> <<"chatgpt">>],
   PROFESSIONAL |-> [platforms |-> <<"chatgpt", "perplexity", "google_ai", "gemini">>],
   SCALE        |-> [platforms |-> <<"chatgpt", "claude", "perplexity", "google_ai",
                                     "copilot", "gemini">>],
   CUSTOM       |-> [platforms |-> <<"chatgpt", "claude", "perplexity", "google_ai",
                                     "copilot", "gemini", "grok", "deepseek">>]]

getPlatformsForPlan(plan) ==
  CASE plan = "FREE" -> <<"chatgpt">>
    [] plan = "STARTER" -> <<"chatgpt">>
    [] plan = "PROFESSIONAL" -> <<"chatgpt", "claude", "perplexity">>
    [] plan \in {"SCALE", "CUSTOM"} -> <<"chatgpt", "claude", "perplexity", "gemini">>
    [] OTHER -> <<"chatgpt">>

(***************************************************************************)
(* scheduled-monitor: which businesses are due.  Times are counted in      *)
(* hours; lastCompleted is the age of the latest COMPLETED scan of a       *)
(* business, NoScan when it has none.                                      *)
(***************************************************************************)
NoScan == -1

ScanLimit == 50

\* cutoffDate: now - 23 hours for daily, now - 6 days for weekly
cutoffHours(frequency) ==
  IF frequency = "daily" THEN 23 ELSE IF frequency = "weekly" THEN 6 * 24 ELSE 0

\* variant: a business is due whatever its last scan
isDue_anyScan(lastCompleted, cutoff) == TRUE

\* !lastScanDate || lastScanDate < cutoffDate
isDue(lastCompleted, cutoff) == lastCompleted = NoScan \/ lastCompleted > cutoff

(***************************************************************************)
(* check_and_use_quota: the limit of a plan for a resource                 *)
(***************************************************************************)
Resources == {"prompts", "answers", "articles", "audits"}

Unlimited == -1

\* v_limit := CASE WHEN v_plan = 'CUSTOM' THEN -1 WHEN p_resource = ... END
planLimit(plan, resource) ==
  IF plan = "CUSTOM" THEN Unlimited
  ELSE CASE resource = "prompts" ->
              (CASE plan = "FREE" -> 10 [] plan = "STARTER" -> 50
                 [] plan = "PROFESSIONAL" -> 100 [] plan = "SCALE" -> 500)
         [] resource = "answers" ->
              (CASE plan = "FREE" -> 100 [] plan = "STARTER" -> 1500
                 [] plan = "PROFESSIONAL" -> 9000 [] plan = "SCALE" -> 45000)
         [] resource = "articles" ->
              (CASE plan = "FREE" -> 2 [] plan = "STARTER" -> 5
                 [] plan = "PROFESSIONAL" -> 20 [] plan = "SCALE" -> 80)
         [] resource = "audits" ->
              (CASE plan = "FREE" -> 5 [] plan = "STARTER" -> 50
                 [] plan = "PROFESSIONAL" -> 200 [] plan = "SCALE" -> 1000)

\* IF v_limit = -1 OR v_usage + p_amount <= v_limit
quotaAllowed(usage, amount, limit) == limit = Unlimited \/ usage + amount <= limit

\* the row the function returns
quotaReturn(usage, amount, limit) ==
  IF quotaAllowed(usage, amount, limit)
  THEN [allowed |-> TRUE, current_usage |-> usage + amount, limit_value |-> limit,
        remaining |-> IF limit = Unlimited THEN -1 ELSE limit - (usage + amount)]
  ELSE [allowed |-> FALSE, current_usage |-> usage, limit_value |-> limit,
        remaining |-> IF limit = Unlimited THEN -1 ELSE limit - usage]

(***************************************************************************)
(* calculateScores(analyses)                                               *)
(***************************************************************************)
\* analyses.filter(a => a[field]).length, field holding a boolean
CountIf(analyses, field) == Cardinality({i \in 1..Len(analyses) : analyses[i][field]})

\* analyses.filter(a => a[field] !== value).length; a.citedUrl is truthy
\* when it is not null
CountIfNot(analyses, field, value) ==
  Cardinality({i \in 1..Len(analyses) : analyses[i][field] # value})

\* analyses.reduce((sum, a) => sum + a[field], 0): a left fold from 0
RECURSIVE ReduceSum(_, _, _)
ReduceSum(analyses, field, n) ==
  IF n = 0 THEN FZero ELSE FAdd(ReduceSum(analyses, field, n - 1), analyses[n][field])

\* (count / total) * 100
Percentage(count, total) ==
  FMul(FDiv(FromInteger(count), FromInteger(total)), Hundred)

\* variant: the average scaled without the shift from [-1, 1] to [0, 1]
sentimentScoreFrom_unshifted(avgSentiment) ==
  MathRound(FMul(avgSentiment, Hundred))

sentimentScoreFrom(avgSentiment) ==
  MathRound(FMul(FDiv(FAdd(avgSentiment, FromInteger(1)), FromInteger(2)),
                 Hundred))

\* the weights 0.35, 0.30, 0.25, 0.10 of the trust formula
TrustWeights ==
  [ sentiment      |-> Literal(35, 100),
    hedging        |-> Literal(30, 100),
    recommendation |-> Literal(25, 100),
    mention        |-> Literal(10, 100) ]

trustScore(sentiment_score, hedgingRate, ai_recommendation_score, nonNegative) ==
  MathRound(
    FAdd(FAdd(FAdd(FMul(FromInteger(sentiment_score), TrustWeights.sentiment),
                   FMul(FSub(Hundred, FMul(hedgingRate, Hundred)), TrustWeights.hedging)),
              FMul(FromInteger(ai_recommendation_score), TrustWeights.recommendation)),
         FMul(nonNegative, TrustWeights.mention)))

\* the weights 0.25, 0.20, 0.20, 0.10, 0.15, 0.10 of the overall formula
OverallWeights ==
  [ trust          |-> Literal(25, 100),
    visibility     |-> Literal(20, 100),
    recommendation |-> Literal(20, 100),
    citation       |-> Literal(10, 100),
    sentiment      |-> Literal(15, 100),
    confidence     |-> Literal(10, 100) ]

overallScore(trust, visibility, recommendation, citation, sentiment, confidence) ==
  MathRound(
    FAdd(FAdd(FAdd(FAdd(FAdd(FMul(FromInteger(trust), OverallWeights.trust),
                             FMul(FromInteger(visibility), OverallWeights.visibility)),
                        FMul(FromInteger(recommendation), OverallWeights.recommendation)),
                   FMul(FromInteger(citation), OverallWeights.citation)),
              FMul(FromInteger(sentiment), OverallWeights.sentiment)),
         FMul(FromInteger(confidence), OverallWeights.confidence)))

\* variant: every value of the empty batch 0
emptyScores_allZero ==
  [ overall_score           |-> 0,
    ai_trust_score          |-> 0,
    ai_visibility_score     |-> 0,
    ai_recommendation_score |-> 0,
    ai_citation_score       |-> 0,
    sentiment_score         |-> 0,
    confidence_score        |-> 0 ]

\* variant: the overall value of the empty batch taken from the weighted formula
emptyScores_overallFromFormula ==
  [ overall_score           |-> overallScore(0, 0, 0, 0, 50, 50),
    ai_trust_score          |-> 0,
    ai_visibility_score     |-> 0,
    ai_recommendation_score |-> 0,
    ai_citation_score       |-> 0,
    sentiment_score         |-> 50,
    confidence_score        |-> 50 ]

emptyScores ==
  [ overall_score           |-> 0,
    ai_trust_score          |-> 0,
    ai_visibility_score     |-> 0,
    ai_recommendation_score |-> 0,
    ai_citation_score       |-> 0,
    sentiment_score         |-> 50,
    confidence_score        |-> 50 ]

\* the record returned, trust given
scoreRecord(trust, visibility, recommendation, citation, sentiment, confidence) ==
  [ overall_score           |-> overallScore(trust, visibility, recommendation, citation,
                                             sentiment, confidence),
    ai_trust_score          |-> trust,
    ai_visibility_score     |-> visibility,
    ai_recommendation_score |-> recommendation,
    ai_citation_score       |-> citation,
    sentiment_score         |-> sentiment,
    confidence_score        |-> confidence ]

\* the record returned, the five scores below trust given
compositeScores(visibility, sentiment, confidence, recommendation, citation, hedgingRate, nonNegative) ==
  scoreRecord(trustScore(sentiment, hedgingRate, recommendation, nonNegative),
              visibility, recommendation, citation, sentiment, confidence)

calculateScores(analyses) ==
  LET total == Len(analyses)
  IN  IF total = 0 THEN emptyScores
      ELSE compositeScores(
             \* ai_visibility_score
             MathRound(Percentage(CountIf(analyses, "mentioned"), total)),
             \* sentiment_score, from avgSentiment
             sentimentScoreFrom(
               FDiv(ReduceSum(analyses, "sentimentScore", total), FromInteger(total))),
             \* confidence_score, from avgConfidence
             MathRound(
               FMul(FDiv(ReduceSum(analyses, "confidenceScore", total), FromInteger(total)),
                    Hundred)),
             \* ai_recommendation_score
             MathRound(Percentage(CountIf(analyses, "isRecommended"), total)),
             \* ai_citation_score
             MathRound(Percentage(CountIfNot(analyses, "citedUrl", NoUrl), total)),
             \* hedgingRate
             FDiv(FromInteger(CountIf(analyses, "hasHedging")), FromInteger(total)),
             \* (count of mentionType !== 'NEGATIVE') / total * 100
             Percentage(CountIfNot(analyses, "mentionType", "NEGATIVE"), total))

(***************************************************************************)
(* Inputs of the model.  A response text is a concatenation of at most     *)
(* MaxWords of the words below, taken in the order of the list, the text   *)
(* of the documented example, or one of the ScenarioTexts.                 *)
(***************************************************************************)
MaxWords == 3

Words == <<
  <<"A", "c", "m", "e", " ">>,
  <<KelvinSign, " ">>,
  <<"o", "a", "k", " ">>,
  <<"a", "v", "o", "i", "d", " ">>,
  <<"p", "o", "o", "r", " ">>,
  <<"g", "r", "e", "a", "t", " ">>,
  <<"r", "e", "c", "o", "m", "m", "e", "n", "d", " ">>,
  <<"m", "i", "g", "h", "t", " ">>,
  <<"c", "o", "u", "l", "d", " ">>,
  <<"R", "i", "v", "a", "l", " ">>,
  <<"h", "t", "t", "p", "s", ":", "/", "/", "a", "c", "m", "e", ".", "c", "o", "m", " ">>
>>

ExampleText ==
  <<"W", "e", " ", "l", "o", "v", "e", " ", "t", "h", "i", "s", " ",
    "c", "o", "m", "p", "a", "n", "y", ",", " ", "h", "i", "g", "h", "l", "y", " ",
    "r", "e", "c", "o", "m", "m", "e", "n", "d", "e", "d", " ", "a", "n", "d", " ",
    "t", "r", "u", "s", "t", "e", "d", "!">>

Acme == <<"A", "c", "m", "e">>

Rival == <<"R", "i", "v", "a", "l">>

BusinessNames == {Acme, <<"k">>, <<"o", ".", "k">>, <<>>}

CompetitorLists == {<<>>, <<Rival>>}

\* competitor names handed to analyzeCompetitorResponse
CompetitorNames == {Rival, Acme, <<"o", ".", "k">>, <<"(", "A", "c", "m", "e">>}

RECURSIVE Concat(_, _)
Concat(ws, i) == IF i > Len(ws) THEN <<>> ELSE Words[ws[i]] \o Concat(ws, i + 1)

WordChoices ==
  UNION {{ws \in [1..k -> 1..Len(Words)] : \A i \in 1..(k - 1) : ws[i] <= ws[i + 1]}
           : k \in 0..MaxWords}

\* Responses longer than MaxWords words: three mentions beside a competitor,
\* three mentions beside two negative words, six hedging hits, six positive
\* words, a URL of another site, two recommendation phrases beside two
\* negative words, three positive words beside two negative words.
ScenarioTexts == <<
  <<"A", "c", "m", "e", " ", "A", "c", "m", "e", " ", "A", "c", "m", "e", " ", "R",
    "i", "v", "a", "l", " ">>,
  <<"A", "c", "m", "e", " ", "A", "c", "m", "e", " ", "A", "c", "m", "e", " ", "a",
    "v", "o", "i", "d", " ", "p", "o", "o", "r", " ">>,
  <<"m", "i", "g", "h", "t", " ", "c", "o", "u", "l", "d", " ", "m", "a", "y", "b",
    "e", " ", "p", "o", "s", "s", "i", "b", "l", "y", " ", "p", "e", "r", "h", "a",
    "p", "s", " ">>,
  <<"g", "r", "e", "a", "t", " ", "e", "x", "c", "e", "l", "l", "e", "n", "t", " ",
    "b", "e", "s", "t", " ", "r", "e", "l", "i", "a", "b", "l", "e", " ", "t", "r",
    "u", "s", "t", "e", "d", " ", "q", "u", "a", "l", "i", "t", "y", " ">>,
  <<"A", "c", "m", "e", " ", "h", "t", "t", "p", "s", ":", "/", "/", "r", "i", "v",
    "a", "l", ".", "c", "o", "m", " ">>,
  <<"r", "e", "c", "o", "m", "m", "e", "n", "d", " ", "w", "o", "r", "t", "h", " ",
    "a", "v", "o", "i", "d", " ", "p", "o", "o", "r", " ">>,
  <<"g", "r", "e", "a", "t", " ", "e", "x", "c", "e", "l", "l", "e", "n", "t", " ",
    "b", "e", "s", "t", " ", "a", "v", "o", "i", "d", " ", "p", "o", "o", "r", " ">>
>>

Texts ==
  {Concat(ws, 1) : ws \in WordChoices} \cup {ExampleText}
    \cup {ScenarioTexts[i] : i \in 1..Len(ScenarioTexts)}

\* The responses a batch is made of: one without any lexicon word or
\* mention, one with a single positive word, one negative and hedged (five
\* hedging words), one recommended and cited (five positive words).
BatchTexts == <<
  <<"o", "a", "k", " ">>,
  <<"A", "c", "m", "e", " ", "g", "r", "e", "a", "t", " ">>,
  <<"A", "c", "m", "e", " ", "a", "v", "o", "i", "d", " ", "p", "o", "o", "r", " ",
    "m", "i", "g", "h", "t", " ", "c", "o", "u", "l", "d", " ", "m", "a", "y", " ",
    "p", "e", "r", "h", "a", "p", "s", " ", "m", "a", "y", "b", "e", " ">>,
  <<"A", "c", "m", "e", " ", "r", "e", "c", "o", "m", "m", "e", "n", "d", " ",
    "e", "x", "c", "e", "l", "l", "e", "n", "t", " ", "g", "r", "e", "a", "t", " ",
    "r", "e", "l", "i", "a", "b", "l", "e", " ", "b", "e", "s", "t", " ",
    "h", "t", "t", "p", "s", ":", "/", "/", "a", "c", "m", "e", ".", "c", "o", "m", " ">>
>>

\* the business of the scans: businesses.name and businesses.competitors
business == [name |-> Acme, competitors |-> <<Rival>>]

BatchAnalyses ==
  [i \in 1..Len(BatchTexts) |->
     analyzeResponse(BatchTexts[i], business.name, business.competitors)]

MaxBatch == 4

\* Batches beyond those: three responses whose weighted sum of scores ends
\* in one half; six, five of them hedged; one citing another site beside
\* one citing the business.
ScenarioBatchTexts == <<
  <<Words[1] \o Words[11], BatchTexts[2], Words[8]>>,
  <<BatchTexts[2], BatchTexts[3], BatchTexts[3], BatchTexts[3],
    Words[6] \o Words[8] \o Words[9], Words[6] \o Words[8] \o Words[9]>>,
  <<ScenarioTexts[5], BatchTexts[4]>>
>>

ScenarioBatches ==
  {[i \in 1..Len(ScenarioBatchTexts[b]) |->
      analyzeResponse(ScenarioBatchTexts[b][i], business.name, business.competitors)]
     : b \in 1..Len(ScenarioBatchTexts)}

\* prompt x platform pairs of one scan
MaxQueries == 2

\* Rows of businesses joined with the plan of their owner, as a run of
\* scheduled-monitor finds them: monitoring enabled or not, either
\* frequency, every plan, a last COMPLETED scan on either side of both
\* cutoffs or none, and what run-scan does when called for the business
\* (answers 200, answers 500, or the fetch throws).
BusinessKinds == <<
  [monitoring_enabled |-> TRUE, monitoring_frequency |-> "daily", plan |-> "FREE",
   lastCompleted |-> NoScan, outcome |-> "ok"],
  [monitoring_enabled |-> TRUE, monitoring_frequency |-> "daily", plan |-> "STARTER",
   lastCompleted |-> 24, outcome |-> "ok"],
  [monitoring_enabled |-> TRUE, monitoring_frequency |-> "daily", plan |-> "PROFESSIONAL",
   lastCompleted |-> 23, outcome |-> "ok"],
  [monitoring_enabled |-> TRUE, monitoring_frequency |-> "daily", plan |-> "PROFESSIONAL",
   lastCompleted |-> 145, outcome |-> "error"],
  [monitoring_enabled |-> TRUE, monitoring_frequency |-> "daily", plan |-> "SCALE",
   lastCompleted |-> 1, outcome |-> "ok"],
  [monitoring_enabled |-> TRUE, monitoring_frequency |-> "weekly", plan |-> "CUSTOM",
   lastCompleted |-> 145, outcome |-> "throw"],
  [monitoring_enabled |-> TRUE, monitoring_frequency |-> "weekly", plan |-> "SCALE",
   lastCompleted |-> 144, outcome |-> "ok"],
  [monitoring_enabled |-> TRUE, monitoring_frequency |-> "weekly", plan |-> "PROFESSIONAL",
   lastCompleted |-> 24, outcome |-> "ok"],
  [monitoring_enabled |-> FALSE, monitoring_frequency |-> "daily", plan |-> "FREE",
   lastCompleted |-> NoScan, outcome |-> "ok"],
  [monitoring_enabled |-> FALSE, monitoring_frequency |-> "weekly", plan |-> "SCALE",
   lastCompleted |-> 145, outcome |-> "ok"],
  [monitoring_enabled |-> TRUE, monitoring_frequency |-> "daily", plan |-> "CUSTOM",
   lastCompleted |-> 24, outcome |-> "throw"],
  [monitoring_enabled |-> TRUE, monitoring_frequency |-> "weekly", plan |-> "SCALE",
   lastCompleted |-> NoScan, outcome |-> "error"]
>>

\* businesses of a table of the model
MaxBusinesses == 2

\* more due businesses than one run scans, every other one with a fetch
\* that throws
Crowd ==
  [i \in 1..(ScanLimit + 2) |-> IF i % 2 = 0 THEN BusinessKinds[11] ELSE BusinessKinds[2]]

BusinessTables ==
  UNION {[1..n -> {BusinessKinds[k] : k \in 1..Len(BusinessKinds)}] : n \in 0..MaxBusinesses}
    \cup {Crowd}

Frequencies == {"daily", "weekly"}

\* concurrent calls of check_and_use_quota for one user and one resource
Callers == {"c1", "c2"}

\* p_amount of a call: 1..MaxAmount
MaxAmount == 2

\* usage below the limit when the calls start: 0..MaxHeadroom
MaxHeadroom == 2

\* the counter of the user before the calls: at most MaxHeadroom below the
\* limit of the plan, anything on CUSTOM
UsagesBefore(plan, resource) ==
  IF plan = "CUSTOM" THEN {0, 100000}
  ELSE {planLimit(plan, resource) - d : d \in 0..MaxHeadroom} \cap Nat

\* what the platforms answer in a scan, beside a response without text
ScanTexts == {BatchTexts[2], BatchTexts[3]}

\* overall_score of the row an earlier scan left: 0 for an empty batch, and
\* from 3 (nothing mentioned, all negative and hedged) to 100 otherwise
EarlierOveralls == {0} \cup (3..100)

NoAnalysis == [mentioned |-> "none"]

NoScores == [overall_score |-> -1]

NoRow == [id |-> 0]

NoCompetitorAnalysis == [mentioned |-> "none"]

NoSummary == [message |-> "none"]

NoReturn == [allowed |-> "none"]

NoLock == "none"

Handlers == {"h1"}

VARIABLES
  responseText,   \* analyzeResponse: its first argument
  businessName,   \* analyzeResponse: its second argument
  competitors,    \* analyzeResponse: its third argument
  analysis,       \* the value analyzeResponse returned, NoAnalysis before the call
  batch,          \* calculateScores: its argument
  scores,         \* the value calculateScores returned, NoScores before the call
  scansTable,     \* table scans, in creation order
  scoresTable,    \* table scores, in creation order
  promptResults,  \* table prompt_results: the scan_id of each row
  alertsTable,    \* table alerts, in creation order
  pc,             \* per request: where the handler stands
  scanId,         \* per request: scan.id
  remaining,      \* per request: prompt x platform pairs still to query
  analyses,       \* per request: const analyses
  results,        \* per request: const results (the response of each record)
  scanScores,     \* per request: const scores
  prevScore,      \* per request: const prevScore
  response,       \* analyzeCompetitorResponse: its first argument
  competitorName, \* analyzeCompetitorResponse: its second argument
  competitorAnalysis, \* what analyzeCompetitorResponse returned or threw
  received,       \* per request: queryResult.response of every answered query
  errorLog,       \* per request: what the handler wrote with console.error
  businessRows,   \* scheduled-monitor: table businesses; the id of a row is its index
  frequency,      \* scheduled-monitor: frequency of the request
  monitorPc,      \* scheduled-monitor: where the handler stands
  businesses,     \* scheduled-monitor: ids the select returned
  businessesToScan, \* scheduled-monitor: ids found due
  cursor,         \* scheduled-monitor: position of the running loop
  scanRequests,   \* scheduled-monitor: bodies posted to run-scan
  monitorResults, \* scheduled-monitor: const results
  summary,        \* scheduled-monitor: body of the response
  userProfile,    \* check_and_use_quota: the row of the user, plan and counter
  pResource,      \* check_and_use_quota: p_resource of the calls
  rowLock,        \* check_and_use_quota: the call holding the lock of the row
  callPc,         \* per call: where it stands
  pAmount,        \* per call: p_amount
  vUsage,         \* per call: v_usage
  vLimit,         \* per call: v_limit
  returned        \* per call: the row returned

analyzeVars == <<responseText, businessName, competitors, analysis>>

scoreVars == <<batch, scores>>

tables == <<scansTable, scoresTable, promptResults, alertsTable>>

locals == <<pc, scanId, remaining, analyses, results, scanScores, prevScore>>

competitorVars == <<response, competitorName, competitorAnalysis>>

logVars == <<received, errorLog>>

monitorVars ==
  <<businessRows, frequency, monitorPc, businesses, businessesToScan, cursor,
    scanRequests, monitorResults, summary>>

quotaVars == <<userProfile, pResource, rowLock, callPc, pAmount, vUsage, vLimit, returned>>

vars ==
  <<analyzeVars, scoreVars, tables, locals, competitorVars, logVars, monitorVars,
    quotaVars>>

\* nothing under analysis, no batch, empty tables, no request
AnalyzeIdle ==
  /\ responseText = <<>>
  /\ businessName = <<>>
  /\ competitors = <<>>
  /\ analysis = NoAnalysis

ScoresIdle == batch = <<>> /\ scores = NoScores

CompetitorIdle ==
  response = <<>> /\ competitorName = <<>> /\ competitorAnalysis = NoCompetitorAnalysis

QuotaIdle ==
  /\ userProfile = [plan |-> "FREE", used |-> 0] /\ pResource = "" /\ rowLock = NoLock
  /\ callPc = [c \in Callers |-> "idle"]
  /\ pAmount = [c \in Callers |-> 0]
  /\ vUsage = [c \in Callers |-> 0]
  /\ vLimit = [c \in Callers |-> 0]
  /\ returned = [c \in Callers |-> NoReturn]

MonitorIdle ==
  /\ businessRows = <<>> /\ frequency = "" /\ monitorPc = "idle"
  /\ businesses = <<>> /\ businessesToScan = <<>> /\ cursor = 0
  /\ scanRequests = <<>> /\ monitorResults = <<>> /\ summary = NoSummary

HandlersIdle ==
  /\ pc = [h \in Handlers |-> "idle"]
  /\ scanId = [h \in Handlers |-> 0]
  /\ remaining = [h \in Handlers |-> 0]
  /\ analyses = [h \in Handlers |-> <<>>]
  /\ results = [h \in Handlers |-> <<>>]
  /\ scanScores = [h \in Handlers |-> NoScores]
  /\ prevScore = [h \in Handlers |-> NoRow]
  /\ received = [h \in Handlers |-> <<>>]
  /\ errorLog = [h \in Handlers |-> <<>>]

TablesEmpty ==
  /\ scansTable = <<>>
  /\ scoresTable = <<>>
  /\ promptResults = <<>>
  /\ alertsTable = <<>>

(***************************************************************************)
(* SpecAnalyze: analyzeResponse applied to every input of the model        *)
(***************************************************************************)
InitAnalyze ==
  /\ responseText \in Texts
  /\ businessName \in BusinessNames
  /\ competitors \in CompetitorLists
  /\ analysis = NoAnalysis
  /\ ScoresIdle /\ TablesEmpty /\ HandlersIdle
  /\ CompetitorIdle /\ QuotaIdle /\ MonitorIdle

Analyze ==
  /\ analysis = NoAnalysis
  /\ analysis' = analyzeResponse(responseText, businessName, competitors)
  /\ UNCHANGED <<responseText, businessName, competitors, scoreVars, tables, locals, competitorVars, logVars,
                 monitorVars, quotaVars>>

NextAnalyze == Analyze

SpecAnalyze == InitAnalyze /\ [][NextAnalyze]_vars

(***************************************************************************)
(* SpecCompetitor: analyzeCompetitorResponse applied to every response and *)
(* competitor name of the model                                            *)
(***************************************************************************)
InitCompetitor ==
  /\ response \in Texts
  /\ competitorName \in CompetitorNames
  /\ competitorAnalysis = NoCompetitorAnalysis
  /\ AnalyzeIdle /\ ScoresIdle /\ TablesEmpty /\ HandlersIdle
  /\ MonitorIdle /\ QuotaIdle

AnalyzeCompetitor ==
  /\ competitorAnalysis = NoCompetitorAnalysis
  /\ competitorAnalysis' = analyzeCompetitorResponse(response, competitorName)
  /\ UNCHANGED <<response, competitorName, analyzeVars, scoreVars, tables, locals,
                 logVars, monitorVars, quotaVars>>

NextCompetitor == AnalyzeCompetitor

SpecCompetitor == InitCompetitor /\ [][NextCompetitor]_vars

(***************************************************************************)
(* SpecScores: calculateScores applied to every batch of at most MaxBatch  *)
(* of the BatchAnalyses and to the ScenarioBatches, and again to a batch   *)
(* of at most MaxBatch with two neighbours exchanged.                      *)
(***************************************************************************)
InitScores ==
  /\ AnalyzeIdle /\ ScoresIdle /\ TablesEmpty /\ HandlersIdle
  /\ CompetitorIdle /\ QuotaIdle /\ MonitorIdle

AddAnalysis(a) ==
  /\ scores = NoScores
  /\ Len(batch) < MaxBatch
  /\ batch' = Append(batch, a)
  /\ UNCHANGED <<scores, analyzeVars, tables, locals, competitorVars, logVars,
                 monitorVars, quotaVars>>

TakeBatch(b) ==
  /\ scores = NoScores
  /\ batch = <<>>
  /\ batch' = b
  /\ UNCHANGED <<scores, analyzeVars, tables, locals, competitorVars, logVars,
                 monitorVars, quotaVars>>

Aggregate ==
  /\ scores = NoScores
  /\ scores' = calculateScores(batch)
  /\ UNCHANGED <<batch, analyzeVars, tables, locals, competitorVars, logVars, monitorVars,
                 quotaVars>>

Exchange(s, i) == [s EXCEPT ![i] = s[i + 1], ![i + 1] = s[i]]

AggregateReordered(i) ==
  /\ scores # NoScores
  /\ Len(batch) <= MaxBatch
  /\ batch' = Exchange(batch, i)
  /\ scores' = calculateScores(Exchange(batch, i))
  /\ UNCHANGED <<analyzeVars, tables, locals, competitorVars, logVars, monitorVars,
                 quotaVars>>

NextScores ==
  \/ \E i \in 1..Len(BatchAnalyses) : AddAnalysis(BatchAnalyses[i])
  \/ \E b \in ScenarioBatches : TakeBatch(b)
  \/ Aggregate
  \/ \E i \in 1..(Len(batch) - 1) : AggregateReordered(i)

SpecScores == InitScores /\ [][NextScores]_vars

(***************************************************************************)
(* Spec: one request to the run-scan handler, on tables that hold nothing  *)
(* or what one earlier, completed scan of the business left.  Storage      *)
(* calls succeed; each is one step.                                        *)
(***************************************************************************)
EarlierScan(v) ==
  /\ scansTable = <<[id |-> 1, status |-> "COMPLETED", results_count |-> 0]>>
  /\ scoresTable = <<[id |-> 1, scan_id |-> 1, overall_score |-> v,
                      sentiment_score |-> 50, confidence_score |-> 50,
                      previous_score_id |-> 0, overall_change |-> "null"]>>
  /\ promptResults = <<>>
  /\ alertsTable = <<>>

Init ==
  /\ AnalyzeIdle /\ ScoresIdle /\ HandlersIdle
  /\ CompetitorIdle /\ QuotaIdle /\ MonitorIdle
  /\ TablesEmpty \/ \E v \in EarlierOveralls : EarlierScan(v)

\* supabase.from('scans').insert({status: 'RUNNING', ...})
CreateScan(h) ==
  /\ pc[h] = "idle"
  /\ scansTable' = Append(scansTable,
       [id |-> Len(scansTable) + 1, status |-> "RUNNING", results_count |-> 0])
  /\ scanId' = [scanId EXCEPT ![h] = Len(scansTable) + 1]
  /\ remaining' = [remaining EXCEPT ![h] = MaxQueries]
  /\ pc' = [pc EXCEPT ![h] = "query"]
  /\ UNCHANGED <<scoresTable, promptResults, alertsTable, analyses, results,
                 scanScores, prevScore, analyzeVars, scoreVars, competitorVars, logVars,
                 monitorVars, quotaVars>>

\* the try block from analyzeResponse on: the analysis and the result
\* record are pushed, or the catch logs what analyzeResponse threw
Analysed(h, text, a) ==
  IF a = TypeError
  THEN /\ errorLog' = [errorLog EXCEPT ![h] = Append(@, a.thrown)]
       /\ UNCHANGED <<analyses, results, monitorVars, quotaVars>>
  ELSE /\ analyses' = [analyses EXCEPT ![h] = Append(@, a)]
       /\ results' = [results EXCEPT ![h] = Append(@, text)]
       /\ UNCHANGED errorLog

\* one pass of the inner loop: the query answered with text
QueryAnswered(h, text) ==
  /\ pc[h] = "query" /\ remaining[h] > 0
  /\ received' = [received EXCEPT ![h] = Append(@, text)]
  /\ Analysed(h, text, analyzeCall(text, business.name, business.competitors))
  /\ remaining' = [remaining EXCEPT ![h] = @ - 1]
  /\ UNCHANGED <<pc, scanId, scanScores, prevScore, tables, analyzeVars, scoreVars,
                 competitorVars, monitorVars, quotaVars>>

\* one pass of the inner loop: !queryRes.ok (continue) or fetch threw (catch)
QueryFailed(h) ==
  /\ pc[h] = "query" /\ remaining[h] > 0
  /\ errorLog' = [errorLog EXCEPT ![h] = Append(@, "query failed")]
  /\ remaining' = [remaining EXCEPT ![h] = @ - 1]
  /\ UNCHANGED <<pc, scanId, analyses, results, scanScores, prevScore, tables,
                 analyzeVars, scoreVars, competitorVars, received,
                 monitorVars, quotaVars>>

\* the request carried platforms: null, which the insert of the scan row
\* accepts: for (const platform of platforms) throws TypeError, the outer
\* catch logs it and answers 500
PlatformsNotIterable(h) ==
  /\ pc[h] = "query" /\ remaining[h] = MaxQueries
  /\ errorLog' = [errorLog EXCEPT ![h] = Append(@, "Scan Error")]
  /\ pc' = [pc EXCEPT ![h] = "error"]
  /\ UNCHANGED <<scanId, remaining, analyses, results, scanScores, prevScore, tables,
                 analyzeVars, scoreVars, competitorVars, received,
                 monitorVars, quotaVars>>

\* supabase.from('prompt_results').insert(results), if there are any
StoreResults(h) ==
  /\ pc[h] = "query" /\ remaining[h] = 0
  /\ promptResults' = promptResults \o [i \in 1..Len(results[h]) |-> scanId[h]]
  /\ pc' = [pc EXCEPT ![h] = "calculate"]
  /\ UNCHANGED <<scansTable, scoresTable, alertsTable, scanId, remaining, analyses,
                 results, scanScores, prevScore, analyzeVars, scoreVars, competitorVars, logVars,
                 monitorVars, quotaVars>>

\* variant: the batch aggregated while queries are outstanding, and again
\* after the loop
CalculateScores_partial(h) ==
  /\ pc[h] \in {"query", "calculate"}
  /\ scanScores' = [scanScores EXCEPT ![h] = calculateScores(analyses[h])]
  /\ pc' = [pc EXCEPT ![h] = IF @ = "calculate" THEN "previous" ELSE @]
  /\ UNCHANGED <<scanId, remaining, analyses, results, prevScore, tables,
                 analyzeVars, scoreVars, competitorVars, logVars,
                 monitorVars, quotaVars>>

\* const scores = calculateScores(analyses)
CalculateScores(h) ==
  /\ pc[h] = "calculate"
  /\ scanScores' = [scanScores EXCEPT ![h] = calculateScores(analyses[h])]
  /\ pc' = [pc EXCEPT ![h] = "previous"]
  /\ UNCHANGED <<scanId, remaining, analyses, results, prevScore, tables,
                 analyzeVars, scoreVars, competitorVars, logVars,
                 monitorVars, quotaVars>>

\* .from('scores').select('*').eq('business_id', businessId)
\*   .order('created_at', {ascending: false}).limit(1).single()
latestScore(table) == IF table = <<>> THEN NoRow ELSE table[Len(table)]

SelectPreviousScore(h) ==
  /\ pc[h] = "previous"
  /\ prevScore' = [prevScore EXCEPT ![h] = latestScore(scoresTable)]
  /\ pc' = [pc EXCEPT ![h] = "insert"]
  /\ UNCHANGED <<scanId, remaining, analyses, results, scanScores, tables,
                 analyzeVars, scoreVars, competitorVars, logVars,
                 monitorVars, quotaVars>>

overallChange(newScores, prev) ==
  IF prev # NoRow THEN newScores.overall_score - prev.overall_score ELSE "null"

\* variant: the row of the previous score overwritten when there is one
InsertScore_overwrite(h) ==
  /\ pc[h] = "insert"
  /\ scoresTable' =
       IF prevScore[h] = NoRow
       THEN Append(scoresTable,
              [id |-> Len(scoresTable) + 1, scan_id |-> scanId[h],
               overall_score |-> scanScores[h].overall_score,
               sentiment_score |-> scanScores[h].sentiment_score,
               confidence_score |-> scanScores[h].confidence_score,
               previous_score_id |-> prevScore[h].id, overall_change |-> "null"])
       ELSE [scoresTable EXCEPT ![prevScore[h].id] =
              [@ EXCEPT !.scan_id = scanId[h],
                        !.overall_score = scanScores[h].overall_score]]
  /\ pc' = [pc EXCEPT ![h] = "complete"]
  /\ UNCHANGED <<scansTable, promptResults, alertsTable, scanId, remaining, analyses,
                 results, scanScores, prevScore, analyzeVars, scoreVars, competitorVars, logVars,
                 monitorVars, quotaVars>>

\* supabase.from('scores').insert({...scores, previous_score_id, overall_change})
InsertScore(h) ==
  /\ pc[h] = "insert"
  /\ scoresTable' = Append(scoresTable,
       [id                |-> Len(scoresTable) + 1,
        scan_id           |-> scanId[h],
        overall_score     |-> scanScores[h].overall_score,
        sentiment_score   |-> scanScores[h].sentiment_score,
        confidence_score  |-> scanScores[h].confidence_score,
        previous_score_id |-> prevScore[h].id,
        overall_change    |-> overallChange(scanScores[h], prevScore[h])])
  /\ pc' = [pc EXCEPT ![h] = "complete"]
  /\ UNCHANGED <<scansTable, promptResults, alertsTable, scanId, remaining, analyses,
                 results, scanScores, prevScore, analyzeVars, scoreVars, competitorVars, logVars,
                 monitorVars, quotaVars>>

\* supabase.from('scans').update({status: 'COMPLETED', ...}).eq('id', scan.id)
CompleteScan(h) ==
  /\ pc[h] = "complete"
  /\ scansTable' = [scansTable EXCEPT ![scanId[h]] =
       [@ EXCEPT !.status = "COMPLETED", !.results_count = Len(results[h])]]
  /\ pc' = [pc EXCEPT ![h] = "alert"]
  /\ UNCHANGED <<scoresTable, promptResults, alertsTable, scanId, remaining, analyses,
                 results, scanScores, prevScore, analyzeVars, scoreVars, competitorVars, logVars,
                 monitorVars, quotaVars>>

\* prevScore && scores.overall_score < prevScore.overall_score - 10
\* variant: no drop looked for when the new overall score is 0
scoreDropped_scored(newScores, prev) ==
  /\ prev # NoRow /\ newScores.overall_score > 0
  /\ newScores.overall_score < prev.overall_score - 10

\* variant: a drop of exactly 10 counted
scoreDropped_inclusive(newScores, prev) ==
  prev # NoRow /\ newScores.overall_score <= prev.overall_score - 10

scoreDropped(newScores, prev) ==
  prev # NoRow /\ newScores.overall_score < prev.overall_score - 10

\* scores.overall_score < prevScore.overall_score - 20 ? 'CRITICAL' : 'WARNING'
\* variant: a drop of exactly 20 counted as critical
dropSeverity_inclusive(newScores, prev) ==
  IF newScores.overall_score <= prev.overall_score - 20 THEN "CRITICAL" ELSE "WARNING"

dropSeverity(newScores, prev) ==
  IF newScores.overall_score < prev.overall_score - 20 THEN "CRITICAL" ELSE "WARNING"

\* the alert is inserted and the response returned
RaiseAlert(h) ==
  /\ pc[h] = "alert"
  /\ scoreDropped(scanScores[h], prevScore[h])
  /\ alertsTable' = Append(alertsTable,
       [alert_type    |-> "SCORE_DROP",
        severity      |-> dropSeverity(scanScores[h], prevScore[h]),
        scan_id       |-> scanId[h],
        previousScore |-> prevScore[h].overall_score,
        newScore      |-> scanScores[h].overall_score])
  /\ pc' = [pc EXCEPT ![h] = "done"]
  /\ UNCHANGED <<scansTable, scoresTable, promptResults, scanId, remaining, analyses,
                 results, scanScores, prevScore, analyzeVars, scoreVars, competitorVars, logVars,
                 monitorVars, quotaVars>>

\* no alert: the response is returned
Respond(h) ==
  /\ pc[h] = "alert"
  /\ ~scoreDropped(scanScores[h], prevScore[h])
  /\ pc' = [pc EXCEPT ![h] = "done"]
  /\ UNCHANGED <<scanId, remaining, analyses, results, scanScores, prevScore, tables,
                 analyzeVars, scoreVars, competitorVars, logVars,
                 monitorVars, quotaVars>>

Next ==
  \E h \in Handlers :
    \/ CreateScan(h)
    \/ \E text \in ScanTexts \cup {Null} : QueryAnswered(h, text)
    \/ QueryFailed(h)
    \/ PlatformsNotIterable(h)
    \/ StoreResults(h)
    \/ CalculateScores(h)
    \/ SelectPreviousScore(h)
    \/ InsertScore(h)
    \/ CompleteScan(h)
    \/ RaiseAlert(h)
    \/ Respond(h)

Spec == Init /\ [][Next]_vars

(***************************************************************************)
(* SpecConcurrent: two requests for the same business served at once.  The *)
(* handler awaits every storage call, so the steps of the two requests     *)
(* interleave.                                                             *)
(***************************************************************************)
Requests == {"h1", "h2"}

InitConcurrent ==
  /\ AnalyzeIdle /\ ScoresIdle /\ CompetitorIdle /\ QuotaIdle /\ MonitorIdle
  /\ pc = [h \in Requests |-> "idle"]
  /\ scanId = [h \in Requests |-> 0]
  /\ remaining = [h \in Requests |-> 0]
  /\ analyses = [h \in Requests |-> <<>>]
  /\ results = [h \in Requests |-> <<>>]
  /\ scanScores = [h \in Requests |-> NoScores]
  /\ prevScore = [h \in Requests |-> NoRow]
  /\ received = [h \in Requests |-> <<>>]
  /\ errorLog = [h \in Requests |-> <<>>]
  /\ TablesEmpty \/ EarlierScan(100)

NextConcurrent ==
  \E h \in Requests :
    \/ CreateScan(h)
    \/ \E text \in ScanTexts : QueryAnswered(h, text)
    \/ QueryFailed(h)
    \/ PlatformsNotIterable(h)
    \/ StoreResults(h)
    \/ CalculateScores(h)
    \/ SelectPreviousScore(h)
    \/ InsertScore(h)
    \/ CompleteScan(h)
    \/ RaiseAlert(h)
    \/ Respond(h)

SpecConcurrent == InitConcurrent /\ [][NextConcurrent]_vars

(***************************************************************************)
(* SpecMonitor: one run of scheduled-monitor over a table of businesses.   *)
(* run-scan is seen from outside: it answers 200, answers 500, or the      *)
(* fetch throws, as the row of the business says.                          *)
(***************************************************************************)
InitMonitor ==
  /\ businessRows \in BusinessTables
  /\ frequency \in Frequencies
  /\ monitorPc = "start"
  /\ businesses = <<>> /\ businessesToScan = <<>> /\ cursor = 0
  /\ scanRequests = <<>> /\ monitorResults = <<>> /\ summary = NoSummary
  /\ AnalyzeIdle /\ ScoresIdle /\ TablesEmpty /\ HandlersIdle /\ CompetitorIdle
  /\ QuotaIdle

\* .from('businesses').select(...).eq('monitoring_enabled', true)
\*   .eq('monitoring_frequency', frequency)
selectBusinesses(rows, freq) ==
  SelectSeq([i \in 1..Len(rows) |-> i],
            LAMBDA i : rows[i].monitoring_enabled /\ rows[i].monitoring_frequency = freq)

\* the select, and the early response when it finds nothing
FetchBusinesses ==
  /\ monitorPc = "start"
  /\ businesses' = selectBusinesses(businessRows, frequency)
  /\ IF selectBusinesses(businessRows, frequency) = <<>>
     THEN /\ summary' = [message |-> "No businesses to scan", count |-> 0]
          /\ monitorPc' = "done"
          /\ UNCHANGED cursor
     ELSE /\ monitorPc' = "check"
          /\ cursor' = 1
          /\ UNCHANGED summary
  /\ UNCHANGED <<businessRows, frequency, businessesToScan, scanRequests, monitorResults,
                 analyzeVars, scoreVars, tables, locals, competitorVars, logVars,
                 quotaVars>>

\* one pass of the first loop: the last COMPLETED scan against the cutoff
CheckLastScan ==
  /\ monitorPc = "check" /\ cursor <= Len(businesses)
  /\ businessesToScan' =
       IF isDue(businessRows[businesses[cursor]].lastCompleted, cutoffHours(frequency))
       THEN Append(businessesToScan, businesses[cursor])
       ELSE businessesToScan
  /\ cursor' = cursor + 1
  /\ UNCHANGED <<businessRows, frequency, monitorPc, businesses, scanRequests,
                 monitorResults, summary,
                 analyzeVars, scoreVars, tables, locals, competitorVars, logVars,
                 quotaVars>>

\* the first loop is over: businessesToScan.slice(0, 50)
StartScans ==
  /\ monitorPc = "check" /\ cursor > Len(businesses)
  /\ monitorPc' = "scan"
  /\ cursor' = 1
  /\ UNCHANGED <<businessRows, frequency, businesses, businessesToScan, scanRequests,
                 monitorResults, summary,
                 analyzeVars, scoreVars, tables, locals, competitorVars, logVars,
                 quotaVars>>

\* one pass of the second loop: the body posted to run-scan, and the entry
\* pushed after the answer or by the catch
ScanBusiness ==
  /\ monitorPc = "scan" /\ cursor <= Min2(Len(businessesToScan), ScanLimit)
  /\ scanRequests' = Append(scanRequests,
       [businessId |-> businessesToScan[cursor],
        scanType   |-> "SCHEDULED",
        platforms  |-> getPlatformsForPlan(businessRows[businessesToScan[cursor]].plan)])
  /\ monitorResults' = Append(monitorResults,
       [businessId |-> businessesToScan[cursor],
        success    |-> businessRows[businessesToScan[cursor]].outcome = "ok"])
  /\ cursor' = cursor + 1
  /\ UNCHANGED <<businessRows, frequency, monitorPc, businesses, businessesToScan, summary,
                 analyzeVars, scoreVars, tables, locals, competitorVars, logVars,
                 quotaVars>>

\* the summary and the response
Summarise ==
  /\ monitorPc = "scan" /\ cursor > Min2(Len(businessesToScan), ScanLimit)
  /\ summary' =
       [message         |-> "Scheduled monitoring complete",
        totalBusinesses |-> Len(businesses),
        scanned         |-> Len(monitorResults),
        successful      |-> Len(SelectSeq(monitorResults, LAMBDA r : r.success)),
        failed          |-> Len(SelectSeq(monitorResults, LAMBDA r : ~r.success))]
  /\ monitorPc' = "done"
  /\ UNCHANGED <<businessRows, frequency, businesses, businessesToScan, cursor,
                 scanRequests, monitorResults,
                 analyzeVars, scoreVars, tables, locals, competitorVars, logVars,
                 quotaVars>>

NextMonitor ==
  \/ FetchBusinesses
  \/ CheckLastScan
  \/ StartScans
  \/ ScanBusiness
  \/ Summarise

SpecMonitor == InitMonitor /\ [][NextMonitor]_vars

(***************************************************************************)
(* SpecQuota: two calls of check_and_use_quota for the same user and       *)
(* resource, each in its own transaction (READ COMMITTED).  SELECT ... FOR *)
(* UPDATE waits while another transaction holds the lock of the row and    *)
(* reads the row as committed; the lock is released at commit.             *)
(***************************************************************************)
InitQuota ==
  /\ pResource \in Resources
  /\ \E plan \in PlanTier : \E used \in UsagesBefore(plan, pResource) :
       userProfile = [plan |-> plan, used |-> used]
  /\ rowLock = NoLock
  /\ callPc = [c \in Callers |-> "call"]
  /\ pAmount \in [Callers -> 1..MaxAmount]
  /\ vUsage = [c \in Callers |-> 0]
  /\ vLimit = [c \in Callers |-> 0]
  /\ returned = [c \in Callers |-> NoReturn]
  /\ AnalyzeIdle /\ ScoresIdle /\ TablesEmpty /\ HandlersIdle /\ CompetitorIdle
  /\ MonitorIdle

\* variant: a plain SELECT, which neither waits for the lock nor takes it
LockAndSelect_unlocked(c) ==
  /\ callPc[c] = "call"
  /\ vUsage' = [vUsage EXCEPT ![c] = userProfile.used]
  /\ vLimit' = [vLimit EXCEPT ![c] = planLimit(userProfile.plan, pResource)]
  /\ callPc' = [callPc EXCEPT ![c] = "locked"]
  /\ UNCHANGED <<userProfile, pResource, rowLock, pAmount, returned,
                 analyzeVars, scoreVars, tables, locals, competitorVars, logVars,
                 monitorVars>>

\* SELECT plan, <counter> INTO v_plan, v_usage ... FOR UPDATE, and v_limit
LockAndSelect(c) ==
  /\ callPc[c] = "call"
  /\ rowLock = NoLock
  /\ rowLock' = c
  /\ vUsage' = [vUsage EXCEPT ![c] = userProfile.used]
  /\ vLimit' = [vLimit EXCEPT ![c] = planLimit(userProfile.plan, pResource)]
  /\ callPc' = [callPc EXCEPT ![c] = "locked"]
  /\ UNCHANGED <<userProfile, pResource, pAmount, returned,
                 analyzeVars, scoreVars, tables, locals, competitorVars, logVars,
                 monitorVars>>

\* the test, UPDATE user_profiles SET <counter> = <counter> + p_amount when
\* it passes (the UPDATE takes the lock of the row if the call has it not),
\* and RETURN QUERY
CheckAndUse(c) ==
  /\ callPc[c] = "locked"
  /\ rowLock \in {NoLock, c}
  /\ IF quotaAllowed(vUsage[c], pAmount[c], vLimit[c])
     THEN /\ userProfile' = [userProfile EXCEPT !.used = @ + pAmount[c]]
          /\ rowLock' = c
     ELSE UNCHANGED <<userProfile, rowLock>>
  /\ returned' = [returned EXCEPT ![c] = quotaReturn(vUsage[c], pAmount[c], vLimit[c])]
  /\ callPc' = [callPc EXCEPT ![c] = "decided"]
  /\ UNCHANGED <<pResource, pAmount, vUsage, vLimit,
                 analyzeVars, scoreVars, tables, locals, competitorVars, logVars,
                 monitorVars>>

\* the transaction of the call commits: its lock is released
Commit(c) ==
  /\ callPc[c] = "decided"
  /\ rowLock' = IF rowLock = c THEN NoLock ELSE rowLock
  /\ callPc' = [callPc EXCEPT ![c] = "returned"]
  /\ UNCHANGED <<userProfile, pResource, pAmount, vUsage, vLimit, returned,
                 analyzeVars, scoreVars, tables, locals, competitorVars, logVars,
                 monitorVars>>

NextQuota == \E c \in Callers : LockAndSelect(c) \/ CheckAndUse(c) \/ Commit(c)

SpecQuota == InitQuota /\ [][NextQuota]_vars

(***************************************************************************)
(* Properties                                                              *)
(***************************************************************************)
ScoreFields ==
  {"overall_score", "ai_trust_score", "ai_visibility_score", "ai_recommendation_score",
   "ai_citation_score", "sentiment_score", "confidence_score"}

\* C1: calculateScores returns the same seven values for a batch and for every
\* permutation of it (stated on the exchange of two neighbours, which
\* generates every permutation).
OrderIndependence ==
  [][LET Occurrences(s, a) == Cardinality({i \in 1..Len(s) : s[i] = a})
         IsPermutation(s, t) ==
           /\ Len(s) = Len(t)
           /\ \A i \in 1..Len(s) : Occurrences(s, s[i]) = Occurrences(t, s[i])
     IN  (scores # NoScores /\ scores' # NoScores /\ IsPermutation(batch, batch'))
           => scores' = scores]_vars

\* C3: each of the seven values calculateScores returns, for an empty batch
\* or not, is an integer from 0 to 100.
ScoreBounds ==
  scores # NoScores => \A f \in ScoreFields : scores[f] \in 0..100

\* a batch whose scores reach the upper bound in every formula
ScoreBoundsWitness ==
  /\ scores # NoScores
  /\ batch # <<>>
  /\ scores.overall_score = 100
  /\ scores.confidence_score = 100

\* C8: calculateScores of the empty batch returns visibility 0, citation 0,
\* recommendation 0, sentiment 50 and confidence 50.
EmptyBatchDefault ==
  (scores # NoScores /\ batch = <<>>) =>
    /\ scores.ai_visibility_score = 0
    /\ scores.ai_citation_score = 0
    /\ scores.ai_recommendation_score = 0
    /\ scores.sentiment_score = 50
    /\ scores.confidence_score = 50

EmptyBatchWitness == batch = <<>> /\ scores # NoScores

formulaOverall(s) ==
  overallScore(s.ai_trust_score, s.ai_visibility_score, s.ai_recommendation_score,
               s.ai_citation_score, s.sentiment_score, s.confidence_score)

\* C9 as claimed: for the empty batch the overall score returned is the
\* weighted formula applied to the other values returned.
EmptyBatchOverallFromFormula ==
  (scores # NoScores /\ batch = <<>>) => scores.overall_score = formulaOverall(scores)

\* C9 as amended: for the empty batch trust and overall are the constant 0,
\* while the weighted formula applied to the values returned gives 13.
EmptyBatchCompositeConstant ==
  (scores # NoScores /\ batch = <<>>) =>
    /\ scores.ai_trust_score = 0
    /\ scores.overall_score = 0
    /\ formulaOverall(scores) = 13

EmptyBatchCompositeWitness ==
  batch = <<>> /\ scores # NoScores /\ scores.overall_score # formulaOverall(scores)

\* C6: analyzeResponse returns mentioned = (mentionCount > 0) for every
\* response text and business name.
MentionCountInvariant ==
  analysis # NoAnalysis => (analysis.mentioned <=> analysis.mentionCount > 0)

MentionTypes == {"ABSENT", "BRIEF", "COMPARISON", "FEATURED", "PRIMARY", "NEGATIVE"}

\* C7: the analysis has one mention type, and it is ABSENT exactly when the
\* business is not mentioned.
MentionTypeAbsentIff ==
  analysis # NoAnalysis =>
    /\ analysis.mentionType \in MentionTypes
    /\ analysis.mentionType = "ABSENT" <=> ~analysis.mentioned

\* an unmentioned business in a response with two negative words that names
\* a competitor
MentionTypeAbsentWitness ==
  /\ analysis # NoAnalysis
  /\ ~analysis.mentioned
  /\ analysis.sentiment = "NEGATIVE"
  /\ analysis.competitorsMentioned # <<>>
  /\ analysis.mentionType = "ABSENT"

ExampleAnalysed ==
  analysis # NoAnalysis /\ responseText = ExampleText /\ businessName = Acme

\* C10 as claimed: the example response, which does not name the business,
\* is analysed as not mentioned, ABSENT and not recommended.
ExampleNotRecommended ==
  ExampleAnalysed =>
    /\ ~analysis.mentioned
    /\ analysis.mentionType = "ABSENT"
    /\ ~analysis.isRecommended

\* C10 as amended: the example response is analysed as not mentioned and
\* ABSENT, and as recommended (it holds "recommend", its sentiment is
\* POSITIVE).
ExampleRecommended ==
  ExampleAnalysed =>
    /\ ~analysis.mentioned
    /\ analysis.mentionType = "ABSENT"
    /\ analysis.sentiment = "POSITIVE"
    /\ analysis.isRecommended

ExampleWitness == ExampleAnalysed /\ analysis.recommendationStrength = "MODERATE"

AlertRaised(h) ==
  \E i \in 1..Len(alertsTable) :
    alertsTable[i].scan_id = scanId[h] /\ alertsTable[i].alert_type = "SCORE_DROP"

Delta(h) == scanScores[h].overall_score - prevScore[h].overall_score

\* C4 as claimed: a finished scan has raised a SCORE_DROP alert exactly when
\* a previous score existed and delta <= -10.
DropAlertFromTen ==
  \A h \in Handlers :
    pc[h] = "done" => (AlertRaised(h) <=> (prevScore[h] # NoRow /\ Delta(h) <= -10))

\* C4 as amended: a finished scan has raised a SCORE_DROP alert exactly when
\* a previous score existed and delta < -10 (a drop of exactly 10 points
\* raises none); the first scan raises none.
DropAlertBeyondTen ==
  \A h \in Handlers :
    pc[h] = "done" => (AlertRaised(h) <=> (prevScore[h] # NoRow /\ Delta(h) < -10))

\* a finished scan 11 points below the previous one, with its alert
DropAlertWitness ==
  \E h \in Handlers :
    pc[h] = "done" /\ prevScore[h] # NoRow /\ Delta(h) = -11 /\ AlertRaised(h)

AlertDelta(a) == a.newScore - a.previousScore

\* C5 as claimed: a SCORE_DROP alert is CRITICAL exactly when delta <= -20,
\* and WARNING otherwise.
SeverityFromTwenty ==
  \A i \in 1..Len(alertsTable) :
    alertsTable[i].alert_type = "SCORE_DROP" =>
      alertsTable[i].severity =
        (IF AlertDelta(alertsTable[i]) <= -20 THEN "CRITICAL" ELSE "WARNING")

\* C5 as amended: a SCORE_DROP alert is CRITICAL exactly when delta < -20 (a
\* drop of exactly 20 points is a WARNING), and WARNING otherwise.
SeverityBeyondTwenty ==
  \A i \in 1..Len(alertsTable) :
    alertsTable[i].alert_type = "SCORE_DROP" =>
      alertsTable[i].severity =
        (IF AlertDelta(alertsTable[i]) < -20 THEN "CRITICAL" ELSE "WARNING")

\* an alert for a drop of 21 points, CRITICAL
SeverityWitness ==
  \E i \in 1..Len(alertsTable) :
    /\ alertsTable[i].alert_type = "SCORE_DROP"
    /\ AlertDelta(alertsTable[i]) = -21
    /\ alertsTable[i].severity = "CRITICAL"

\* the number of words of a lexicon that occur in the response under analysis
LexiconHits(lexicon) == Count(lexicon, toLowerCase(responseText))

\* C11: when the business is mentioned, mentionType is decided by the first
\* rule that applies, in the order: two or more negative words, NEGATIVE;
\* three or more mentions, PRIMARY; two mentions, FEATURED; a competitor named
\* in the response, COMPARISON; otherwise BRIEF.
MentionTypePrecedence ==
  (analysis # NoAnalysis /\ analysis.mentioned) =>
    analysis.mentionType =
      (IF LexiconHits(NEGATIVE_INDICATORS) >= 2 THEN "NEGATIVE"
       ELSE IF analysis.mentionCount >= 3 THEN "PRIMARY"
       ELSE IF analysis.mentionCount >= 2 THEN "FEATURED"
       ELSE IF analysis.competitorsMentioned # <<>> THEN "COMPARISON"
       ELSE "BRIEF")

\* three mentions beside a competitor and fewer than two negative words
MentionTypePrecedenceWitness ==
  /\ analysis # NoAnalysis
  /\ businessName = Acme
  /\ analysis.mentionCount = 3
  /\ analysis.competitorsMentioned # <<>>
  /\ LexiconHits(NEGATIVE_INDICATORS) < 2
  /\ analysis.mentionType = "PRIMARY"

\* x is num/den up to the error of its evaluation in binary64: they differ
\* by less than 2^-50
Near(x, num, den) ==
  LET d == FSub(x, Literal(num, den))
  IN  d.m = <<>> \/ d.e + BitLen(d.m) <= -50

\* C12: confidenceScore is 0.5 + 0.1 * positiveCount - 0.1 * h clamped to
\* [0, 1], h being the number of hedging-lexicon words that occur (one such
\* word counts although hasHedging is then false), and hasHedging holds
\* exactly when h >= 2.  The score is a binary64 number: it is the value of
\* the formula up to the error of its evaluation.
ConfidenceFormula ==
  analysis # NoAnalysis =>
    /\ analysis.hasHedging <=> LexiconHits(HEDGING_WORDS) >= 2
    /\ Near(analysis.confidenceScore,
            Max2(0, Min2(10, 5 + LexiconHits(POSITIVE_INDICATORS)
                               - LexiconHits(HEDGING_WORDS))),
            10)

\* two hedging words and one positive word: hasHedging, and 0.4
ConfidenceFormulaWitness ==
  /\ analysis # NoAnalysis
  /\ LexiconHits(HEDGING_WORDS) = 2
  /\ LexiconHits(POSITIVE_INDICATORS) = 1
  /\ analysis.hasHedging
  /\ Near(analysis.confidenceScore, 4, 10)

\* x lies in the closed interval from the integer lo to the integer hi
Between(x, lo, hi) == FCmp(x, FromInteger(lo)) >= 0 /\ FCmp(x, FromInteger(hi)) <= 0

\* C14: for every response, sentimentScore is (positiveCount - negativeCount)
\* / max(1, positiveCount + negativeCount), lies in [-1, 1] and is 0 when no
\* word of the two lexicons occurs; confidenceScore lies in [0, 1].
ResponseScoreBounds ==
  analysis # NoAnalysis =>
    /\ Near(analysis.sentimentScore,
            LexiconHits(POSITIVE_INDICATORS) - LexiconHits(NEGATIVE_INDICATORS),
            Max2(1, LexiconHits(POSITIVE_INDICATORS) + LexiconHits(NEGATIVE_INDICATORS)))
    /\ Between(analysis.sentimentScore, -1, 1)
    /\ (LexiconHits(POSITIVE_INDICATORS) + LexiconHits(NEGATIVE_INDICATORS) = 0
          => analysis.sentimentScore = FZero)
    /\ Between(analysis.confidenceScore, 0, 1)

\* six hedging words and no positive one: the sum is below 0, the score is 0
ResponseScoreBoundsWitness ==
  /\ analysis # NoAnalysis
  /\ 5 + LexiconHits(POSITIVE_INDICATORS) - LexiconHits(HEDGING_WORDS) < 0
  /\ analysis.confidenceScore = FZero
  /\ analysis.sentimentScore = FZero

\* C15: for every response text and business name, the empty strings
\* included, mentionContext is non-empty exactly when mentioned is true.
MentionContextIff ==
  analysis # NoAnalysis => (analysis.mentionContext # <<>> <=> analysis.mentioned)

\* C19: isRecommended holds exactly when a recommendation phrase occurs and
\* the sentiment is not NEGATIVE, whether the business is mentioned or not;
\* recommendationStrength is STRONG for two or more phrases, MODERATE for
\* one, NONE for none, whatever the sentiment.
RecommendationRule ==
  analysis # NoAnalysis =>
    /\ analysis.isRecommended <=>
         (LexiconHits(RECOMMENDATION_PHRASES) > 0 /\ analysis.sentiment # "NEGATIVE")
    /\ analysis.recommendationStrength =
         (IF LexiconHits(RECOMMENDATION_PHRASES) >= 2 THEN "STRONG"
          ELSE IF LexiconHits(RECOMMENDATION_PHRASES) = 1 THEN "MODERATE"
          ELSE "NONE")

\* two phrases in a NEGATIVE response that does not mention the business:
\* STRONG, and not recommended
RecommendationRuleWitness ==
  /\ analysis # NoAnalysis
  /\ ~analysis.mentioned
  /\ analysis.sentiment = "NEGATIVE"
  /\ analysis.recommendationStrength = "STRONG"
  /\ ~analysis.isRecommended

\* num / den rounded to an integer in exact arithmetic, a half going up
RoundedRatio(num, den) == (2 * num + den) \div (2 * den)

\* The sum of the sentiment scores of the first n records as a fraction
\* <<numerator, denominator>>, each score being (positive - negative) /
\* max(1, positive + negative) of the words the record lists.
RECURSIVE SentimentSum(_, _)
SentimentSum(records, n) ==
  IF n = 0 THEN <<0, 1>>
  ELSE LET sum      == SentimentSum(records, n - 1)
           positive == Cardinality(records[n].positiveIndicators)
           negative == Cardinality(records[n].negativeIndicators)
       IN  <<sum[1] * Max2(1, positive + negative) + (positive - negative) * sum[2],
             sum[2] * Max2(1, positive + negative)>>

\* The sum of the confidence scores of the records in tenths, each score
\* being the tenth its binary64 value stands for.
ConfidenceTenths(records) ==
  Cardinality({<<i, j>> \in (1..Len(records)) \X (1..10) :
                 j <= MathRound(FMul(records[i].confidenceScore, FromInteger(10)))})

\* C13: for a non-empty batch of n analyses, visibility is round(100 *
\* mentioned / n), recommendation round(100 * recommended / n), sentiment
\* round(100 * (avg(sentimentScore) + 1) / 2) and confidence round(100 *
\* avg(confidenceScore)), in exact arithmetic with a half rounded up; four
\* analyses, two of them mentioned, none recommended, none
\* cited, give visibility 50, recommendation 0, citation 0.
RateScores ==
  (scores # NoScores /\ batch # <<>>) =>
    /\ scores.ai_visibility_score =
         RoundedRatio(100 * CountIf(batch, "mentioned"), Len(batch))
    /\ scores.ai_recommendation_score =
         RoundedRatio(100 * CountIf(batch, "isRecommended"), Len(batch))
    /\ scores.sentiment_score =
         RoundedRatio(100 * (SentimentSum(batch, Len(batch))[1]
                             + SentimentSum(batch, Len(batch))[2] * Len(batch)),
                      2 * SentimentSum(batch, Len(batch))[2] * Len(batch))
    /\ scores.confidence_score = RoundedRatio(10 * ConfidenceTenths(batch), Len(batch))
    /\ (/\ Len(batch) = 4
        /\ CountIf(batch, "mentioned") = 2
        /\ CountIf(batch, "isRecommended") = 0
        /\ CountIfNot(batch, "citedUrl", NoUrl) = 0)
         => /\ scores.ai_visibility_score = 50
            /\ scores.ai_recommendation_score = 0
            /\ scores.ai_citation_score = 0

\* C17: for a non-empty batch, overall is round(0.25 * trust + 0.20 *
\* visibility + 0.20 * recommendation + 0.10 * citation + 0.15 * sentiment +
\* 0.10 * confidence) of the six rounded scores returned with it, a half
\* rounded away from zero.
OverallFormula ==
  (scores # NoScores /\ batch # <<>>) =>
    scores.overall_score =
      RoundedRatio(25 * scores.ai_trust_score + 20 * scores.ai_visibility_score
                     + 20 * scores.ai_recommendation_score + 10 * scores.ai_citation_score
                     + 15 * scores.sentiment_score + 10 * scores.confidence_score,
                   100)

\* C18: for a non-empty batch of n analyses, trust is round(0.35 * sentiment
\* + 0.30 * (100 - 100 * hedgingRate) + 0.25 * recommendation + 0.10 * 100 *
\* nonNegativeRate), sentiment and recommendation being the rounded scores
\* returned, hedgingRate the share of analyses with hasHedging and
\* nonNegativeRate the share of analyses whose mentionType is not NEGATIVE
\* (ABSENT ones included).
TrustFormula ==
  (scores # NoScores /\ batch # <<>>) =>
    scores.ai_trust_score =
      RoundedRatio(35 * scores.sentiment_score * Len(batch)
                     + 30 * (100 * Len(batch) - 100 * CountIf(batch, "hasHedging"))
                     + 25 * scores.ai_recommendation_score * Len(batch)
                     + 10 * 100 * CountIfNot(batch, "mentionType", "NEGATIVE"),
                   100 * Len(batch))

\* some URL of the response names the business of the scans: lower-cased, it
\* contains the lower-cased business name without its white space
CitesBusiness(a) ==
  \E j \in 1..Len(a.citedSources) :
    includes(toLowerCase(a.citedSources[j]), stripWhiteSpace(toLowerCase(business.name)))

ScoreChain ==
  \A i \in 1..Len(scoresTable) :
    IF i = 1
    THEN /\ scoresTable[i].previous_score_id = NoRow.id
         /\ scoresTable[i].overall_change = "null"
    ELSE /\ scoresTable[i].previous_score_id = scoresTable[i - 1].id
         /\ scoresTable[i].overall_change =
              scoresTable[i].overall_score - scoresTable[i - 1].overall_score

(***************************************************************************)
(* C21  Sentiment category, first match wins: NEGATIVE whenever two or     *)
(* more negative indicators occur, even when positives outnumber them and  *)
(* sentimentScore is positive; otherwise POSITIVE when sentimentScore > 0; *)
(* otherwise CAUTIOUS when a negative indicator occurs; otherwise NEUTRAL. *)
(* VERY_POSITIVE and VERY_NEGATIVE are never produced.                     *)
(***************************************************************************)
SentimentPriority ==
  analysis # NoAnalysis =>
    /\ analysis.sentiment \in {"NEGATIVE", "POSITIVE", "CAUTIOUS", "NEUTRAL"}
    /\ analysis.sentiment =
         (IF LexiconHits(NEGATIVE_INDICATORS) >= 2 THEN "NEGATIVE"
          ELSE IF FCmp(analysis.sentimentScore, FZero) > 0 THEN "POSITIVE"
          ELSE IF LexiconHits(NEGATIVE_INDICATORS) > 0 THEN "CAUTIOUS"
          ELSE "NEUTRAL")

\* three positive words beside two negative ones: sentimentScore 0.2, NEGATIVE
SentimentPriorityWitness ==
  /\ analysis # NoAnalysis
  /\ LexiconHits(NEGATIVE_INDICATORS) = 2
  /\ LexiconHits(POSITIVE_INDICATORS) = 3
  /\ FCmp(analysis.sentimentScore, FZero) > 0
  /\ analysis.sentiment = "NEGATIVE"

(***************************************************************************)
(* C22  Name matching escapes regular-expression syntax on every path: in  *)
(* analyzeCompetitorResponse a competitor name is matched as a literal     *)
(* substring, so that the construction of the pattern never fails and      *)
(* mentioned = (mentionCount > 0) for every name and response.             *)
(***************************************************************************)
CompetitorNameLiteral ==
  competitorAnalysis # NoCompetitorAnalysis =>
    /\ competitorAnalysis # SyntaxError
    /\ competitorAnalysis.mentioned <=> competitorAnalysis.mentionCount > 0

\* the responses that carried text, and the TypeErrors the loop has caught
TextsOf(rcv) == SelectSeq(rcv, LAMBDA t : t # Null)

ThrownIn(log) == Cardinality({i \in 1..Len(log) : log[i] = TypeError.thrown})

WithText(h) == TextsOf(received[h])

ThrownCount(h) == ThrownIn(errorLog[h])

FailedCount(h) == Len(errorLog[h]) - ThrownCount(h)

(***************************************************************************)
(* C24  Within one execution of run-scan calculateScores is invoked once,  *)
(* only after every prompt x platform query has completed or failed, and   *)
(* no analysis is appended to the batch after that invocation.             *)
(***************************************************************************)
ClosedBatch ==
  [][\A h \in DOMAIN pc :
       /\ scanScores'[h] # scanScores[h] =>
             /\ scanScores[h] = NoScores
             /\ remaining[h] = 0
             /\ Len(received[h]) + FailedCount(h) = MaxQueries
       /\ scanScores[h] # NoScores =>
             /\ scanScores'[h] = scanScores[h]
             /\ analyses'[h] = analyses[h]
             /\ received'[h] = received[h]
       /\ pc'[h] = "done" => scanScores'[h] # NoScores]_vars

\* a scan answered the response after one query that failed and one answered
ClosedBatchWitness ==
  \E h \in DOMAIN pc :
    /\ pc[h] = "done" /\ scanScores[h] # NoScores
    /\ FailedCount(h) >= 1 /\ Len(analyses[h]) >= 1

\* rows of a table written by the scan
RowsOf(table, scan) == {i \in 1..Len(table) : table[i].scan_id = scan}

(***************************************************************************)
(* C25  The score history is append-only: an execution of run-scan that    *)
(* reaches scoring inserts one new row into scores and at most one         *)
(* SCORE_DROP alert, and no step updates or deletes an existing scores     *)
(* row.                                                                    *)
(***************************************************************************)
AppendOnlyScores ==
  [][/\ Len(scoresTable') >= Len(scoresTable)
     /\ SubSeq(scoresTable', 1, Len(scoresTable)) = scoresTable
     /\ \A h \in DOMAIN pc :
          /\ pc'[h] \in {"complete", "alert", "done"} =>
                Cardinality(RowsOf(scoresTable', scanId'[h])) = 1
          /\ pc'[h] \in {"idle", "query", "calculate", "previous", "insert"} =>
                RowsOf(scoresTable', scanId'[h]) = {}
          /\ Cardinality(RowsOf(alertsTable', scanId'[h])) <= 1
          /\ \A i \in RowsOf(alertsTable', scanId'[h]) :
                alertsTable'[i].alert_type = "SCORE_DROP"]_vars

\* a scan that added its row and its alert behind the row of an earlier scan
AppendOnlyScoresWitness ==
  \E h \in DOMAIN pc :
    /\ pc[h] = "done"
    /\ Len(scoresTable) = 2 /\ scoresTable[2].scan_id = scanId[h]
    /\ Cardinality(RowsOf(alertsTable, scanId[h])) = 1

(***************************************************************************)
(* C26  When every platform query of a scan fails, run-scan still marks    *)
(* the scan COMPLETED with results_count 0 and stores one score row with   *)
(* overall_score 0, sentiment and confidence 50; the drop is evaluated on  *)
(* it as on any scan, so that a SCORE_DROP alert is raised whenever the    *)
(* previous overall score exceeds 10.                                      *)
(***************************************************************************)
AllFailedScan ==
  \A h \in DOMAIN pc :
    (pc[h] = "done" /\ FailedCount(h) = MaxQueries) =>
      /\ scansTable[scanId[h]].status = "COMPLETED"
      /\ scansTable[scanId[h]].results_count = 0
      /\ Cardinality(RowsOf(scoresTable, scanId[h])) = 1
      /\ \A i \in RowsOf(scoresTable, scanId[h]) :
            /\ scoresTable[i].overall_score = 0
            /\ scoresTable[i].sentiment_score = 50
            /\ scoresTable[i].confidence_score = 50
      /\ (RowsOf(alertsTable, scanId[h]) # {}) <=>
            (prevScore[h] # NoRow /\ prevScore[h].overall_score > 10)

\* every query failed, the earlier scan had scored above 10: alert raised
AllFailedScanWitness ==
  \E h \in DOMAIN pc :
    /\ pc[h] = "done" /\ FailedCount(h) = MaxQueries
    /\ scansTable[scanId[h]].status = "COMPLETED"
    /\ RowsOf(alertsTable, scanId[h]) # {}

(***************************************************************************)
(* C27  Every scans row that run-scan creates with status RUNNING has      *)
(* status COMPLETED or FAILED when the handler returns its response, on    *)
(* the success path and on every error path, an exception thrown after     *)
(* the row was created included.                                           *)
(***************************************************************************)
ScanStatusTerminal ==
  \A h \in DOMAIN pc :
    pc[h] \in {"done", "error"} =>
      scansTable[scanId[h]].status \in {"COMPLETED", "FAILED"}

Range(seq) == {seq[i] : i \in 1..Len(seq)}

(***************************************************************************)
(* C28  Scheduled scans respect plan gating: for every plan tier the       *)
(* platforms that scheduled-monitor sends to run-scan for a business are   *)
(* among those PLAN_LIMITS allows for the plan of the owner, and chatgpt   *)
(* is one of them.                                                         *)
(***************************************************************************)
MonitorPlanGating ==
  \A i \in 1..Len(scanRequests) :
    /\ Range(scanRequests[i].platforms) \subseteq
         Range(PLAN_LIMITS[businessRows[scanRequests[i].businessId].plan].platforms)
    /\ "chatgpt" \in Range(scanRequests[i].platforms)

\* calls between their SELECT ... FOR UPDATE and their commit
InTransaction == {c \in Callers : callPc[c] \in {"locked", "decided"}}

(***************************************************************************)
(* C29  Concurrent calls of check_and_use_quota for the same user and      *)
(* resource are serialised on the row of the user; a call returns allowed  *)
(* only if usage + amount <= limit at the moment it holds the lock, so     *)
(* that the counter of a limited plan never passes the limit; a call that  *)
(* returns allowed = FALSE leaves the counter unchanged; on plan CUSTOM    *)
(* every call is allowed.                                                  *)
(***************************************************************************)
QuotaAtomic ==
  [][/\ Cardinality(InTransaction') <= 1
     /\ \A c \in Callers :
          /\ callPc'[c] = "locked" => vUsage'[c] = userProfile'.used
          /\ (returned'[c] # returned[c] /\ returned'[c].allowed) =>
                /\ quotaAllowed(userProfile.used, pAmount[c], planLimit(userProfile.plan, pResource))
                /\ userProfile'.used = userProfile.used + pAmount[c]
          /\ (returned'[c] # returned[c] /\ ~returned'[c].allowed) =>
                /\ ~quotaAllowed(userProfile.used, pAmount[c], planLimit(userProfile.plan, pResource))
                /\ userProfile'.used = userProfile.used
          /\ (returned'[c] # NoReturn /\ userProfile.plan = "CUSTOM") =>
                returned'[c].allowed
     /\ userProfile.plan # "CUSTOM" =>
          userProfile'.used <= planLimit(userProfile.plan, pResource)]_vars

\* two calls for the last unit of a limited plan: one allowed, one refused
QuotaAtomicWitness ==
  /\ \A c \in Callers : callPc[c] = "returned"
  /\ \E c \in Callers : returned[c].allowed = TRUE
  /\ \E c \in Callers : returned[c].allowed = FALSE
  /\ userProfile.used = planLimit(userProfile.plan, pResource)

\* rows that the run is to scan: enabled, of the frequency asked, and due
DueRows ==
  {i \in 1..Len(businessRows) :
     /\ businessRows[i].monitoring_enabled
     /\ businessRows[i].monitoring_frequency = frequency
     /\ isDue(businessRows[i].lastCompleted, cutoffHours(frequency))}

(***************************************************************************)
(* C30  In one run of scheduled-monitor a business is sent to run-scan     *)
(* only if its monitoring is enabled with the frequency asked and it has   *)
(* no COMPLETED scan newer than the cutoff (23 hours for daily, 6 days for *)
(* weekly); at most 50 businesses are scanned; each attempted business     *)
(* contributes one entry to results, so that scanned = successful +        *)
(* failed; a scan that fails or throws does not keep the remaining         *)
(* businesses from being scanned.                                          *)
(***************************************************************************)
MonitorSelection ==
  /\ \A i \in 1..Len(scanRequests) :
       /\ businessRows[scanRequests[i].businessId].monitoring_enabled
       /\ businessRows[scanRequests[i].businessId].monitoring_frequency = frequency
       /\ \/ businessRows[scanRequests[i].businessId].lastCompleted = NoScan
          \/ businessRows[scanRequests[i].businessId].lastCompleted >=
               (IF frequency = "daily" THEN 23 ELSE 6 * 24)
       /\ \A j \in 1..Len(scanRequests) :
            scanRequests[i].businessId = scanRequests[j].businessId => i = j
  /\ Len(scanRequests) <= 50
  /\ Len(monitorResults) = Len(scanRequests)
  /\ \A i \in 1..Len(monitorResults) :
       monitorResults[i].businessId = scanRequests[i].businessId
  /\ (monitorPc = "done" /\ businesses # <<>>) =>
       /\ summary.scanned = Len(monitorResults)
       /\ summary.scanned = summary.successful + summary.failed
       /\ summary.scanned = Min2(50, Cardinality(DueRows))
       /\ \A i \in 1..Len(monitorResults) :
            monitorResults[i].success <=>
              businessRows[monitorResults[i].businessId].outcome = "ok"
  /\ (monitorPc = "done" /\ businesses = <<>>) => scanRequests = <<>>

\* a run over more than 50 due businesses, every other scan throwing
MonitorSelectionWitness ==
  /\ monitorPc = "done"
  /\ Cardinality(DueRows) > ScanLimit
  /\ summary.scanned = ScanLimit
  /\ summary.failed > 0 /\ summary.successful > 0
  /\ ~monitorResults[2].success /\ monitorResults[3].success

====
